---- MODULE Spec2Model ----
(***************************************************************************)
(* Identity Asset Dashboard: the client cache (DashboardContext), the      *)
(* per-page dataset loader (loadData of the four pages) and the view       *)
(* state the pages derive their display from.                              *)
(*                                                                         *)
(* One page is mounted at a time (App.tsx Routes).  localStorage outlives  *)
(* the views; timers started by loadData outlive the view that started     *)
(* them.  JavaScript runs every handler to completion, so one action is    *)
(* one handler: a click, a mount (render + effects), or the continuation   *)
(* of loadData after its await.                                            *)
(*                                                                         *)
(* Spec:   the user moves between the pages and presses Try Again; the     *)
(*         controls of the pages are left alone.                           *)
(* SpecUI: the user stays on the page the session opened on and works its  *)
(*         controls, the theme button and Try Again.                       *)
(***************************************************************************)
EXTENDS Integers, Sequences, FiniteSets, TLC

VARIABLES
    now,         \* what Date.now() returned when it was last read
    storage,     \* window.localStorage: storage key -> item
    cachedData,  \* DashboardProvider: cachedData state (in-memory mirror)
    darkMode,    \* DashboardProvider: darkMode state
    route,       \* the page the router has mounted
    view,        \* the mounted page's React state
    pending,     \* loadData calls suspended at their await, in start order
    uncaught,    \* TRUE once a loadData promise has rejected unhandled
    navigations, \* how many times the user has changed or reloaded the page
    sizes,       \* the bundled data files: page -> number of records (never changes)
    gestures,    \* how many more times the user acts on the page's controls
    discarded,   \* ids of the records whose committed rename a reload threw away
                 \* (observation)
    timer,       \* SSHKeysPage: the running timers of the debounce effect
    cleared,     \* the terms of the debounce timers cleared before they fired
                 \* (observation)
    last         \* the handler that ran last and what it did (observation)

vars == <<now, storage, cachedData, darkMode, route, view, pending, uncaught,
          navigations, sizes, gestures, discarded, timer, cleared, last>>

----------------------------------------------------------------------------
(* Bounds of the model *)

\* Date.now() returns 0..MaxTime: every resumption of loadData reads a later
\* time than the one before it, until the clock stops at MaxTime.
MaxTime == 2

\* At most this many loadData calls are suspended at once.
MaxPending == 2

\* The user changes page at most this many times in a session.
MaxNavigations == 2

\* The fixture files hold this many records each (in SpecUI: those of the
\* pages that show all their rows at once).
FixtureSize == 2

\* records a paged or incrementally revealed fixture has beyond one window
ExtraRows == 2

\* gestures on the page's controls in one session (one more in a session
\* that pages through a long list)
MaxGestures == 3

\* full pages of certificates in a session that pages through a long list
FullPages == 3

\* CertificatesPage: rows on a page; AuditLogsPage: rows revealed at a time
ITEMS_PER_PAGE == 10
ITEMS_PER_LOAD == 10

----------------------------------------------------------------------------
(* JSON text: a sequence of tokens *)

StrTok(s) == [k |-> "str", s |-> s, n |-> 0]
NumTok(n) == [k |-> "num", s |-> "", n |-> n]
LitTok(s) == [k |-> "lit", s |-> s, n |-> 0]
Punct(c) == [k |-> "punct", s |-> c, n |-> 0]

RECURSIVE JoinWith(_, _)
\* parts joined with a separator token between consecutive parts
JoinWith(parts, sep) ==
    IF Len(parts) = 0 THEN <<>>
    ELSE IF Len(parts) = 1 THEN parts[1]
    ELSE parts[1] \o <<sep>> \o JoinWith(Tail(parts), sep)

\* JSON.stringify of an object whose values are strings; fields in insertion order
StringifyRecord(r, fields) ==
    <<Punct("{")>>
    \o JoinWith([i \in 1..Len(fields) |->
                    <<StrTok(fields[i]), Punct(":"), StrTok(r[fields[i]])>>],
                Punct(","))
    \o <<Punct("}")>>

\* JSON.stringify of an array of such objects
StringifyArray(list, fields) ==
    <<Punct("[")>>
    \o JoinWith([i \in 1..Len(list) |-> StringifyRecord(list[i], fields)], Punct(","))
    \o <<Punct("]")>>

\* JSON.stringify({ data, timestamp })
StringifyEntry(data, timestamp, fields) ==
    <<Punct("{"), StrTok("data"), Punct(":")>>
    \o StringifyArray(data, fields)
    \o <<Punct(","), StrTok("timestamp"), Punct(":"), NumTok(timestamp), Punct("}")>>

\* JSON.stringify of a boolean
StringifyBool(b) == <<LitTok(IF b THEN "true" ELSE "false")>>

ParseFail == [ok |-> FALSE, val |-> <<>>, next |-> 0]
ParseOk(v, i) == [ok |-> TRUE, val |-> v, next |-> i]

\* the object a list of <<key, value>> members denotes (a later duplicate wins)
ObjectOf(members) ==
    [key \in {members[j][1] : j \in 1..Len(members)} |->
        members[CHOOSE j \in 1..Len(members) :
                    /\ members[j][1] = key
                    /\ \A j2 \in (j+1)..Len(members) : members[j2][1] # key][2]]

RECURSIVE ParseValue(_, _), ParseElements(_, _, _), ParseMembers(_, _, _)

\* the JSON value that starts at token i, and the position after it
ParseValue(t, i) ==
    IF i > Len(t) THEN ParseFail
    ELSE IF t[i].k = "str" THEN ParseOk(t[i].s, i + 1)
    ELSE IF t[i].k = "num" THEN ParseOk(t[i].n, i + 1)
    ELSE IF t[i].k = "lit" THEN
        IF t[i].s \in {"true", "false"} THEN ParseOk(t[i].s = "true", i + 1)
        ELSE ParseFail
    ELSE IF t[i] = Punct("[") THEN
        IF i + 1 <= Len(t) /\ t[i+1] = Punct("]") THEN ParseOk(<<>>, i + 2)
        ELSE ParseElements(t, i + 1, <<>>)
    ELSE IF t[i] = Punct("{") THEN
        IF i + 1 <= Len(t) /\ t[i+1] = Punct("}") THEN ParseOk(<<>>, i + 2)
        ELSE ParseMembers(t, i + 1, <<>>)
    ELSE ParseFail

\* array elements from token i on, up to the closing bracket
ParseElements(t, i, acc) ==
    LET v == ParseValue(t, i) IN
    IF ~v.ok \/ v.next > Len(t) THEN ParseFail
    ELSE IF t[v.next] = Punct("]") THEN ParseOk(Append(acc, v.val), v.next + 1)
    ELSE IF t[v.next] = Punct(",") THEN ParseElements(t, v.next + 1, Append(acc, v.val))
    ELSE ParseFail

\* object members from token i on, up to the closing brace
ParseMembers(t, i, acc) ==
    IF i + 1 > Len(t) \/ t[i].k # "str" \/ t[i+1] # Punct(":") THEN ParseFail
    ELSE
        LET v == ParseValue(t, i + 2) IN
        IF ~v.ok \/ v.next > Len(t) THEN ParseFail
        ELSE IF t[v.next] = Punct("}")
            THEN ParseOk(ObjectOf(Append(acc, <<t[i].s, v.val>>)), v.next + 1)
        ELSE IF t[v.next] = Punct(",")
            THEN ParseMembers(t, v.next + 1, Append(acc, <<t[i].s, v.val>>))
        ELSE ParseFail

\* JSON.parse: ok is FALSE where JSON.parse throws SyntaxError
JSONParse(t) ==
    LET v == ParseValue(t, 1) IN
    IF v.ok /\ v.next = Len(t) + 1 THEN v ELSE ParseFail

----------------------------------------------------------------------------
(* The four pages, their fixtures and their cache keys *)

Pages == {"CertificatesPage", "SSHKeysPage", "CodeSigningPage", "AuditLogsPage"}

\* the i-th element of a table, the table repeated as often as needed
Pick(table, i) == table[((i - 1) % Len(table)) + 1]

CertificateIds ==
    <<"c1", "c2", "c3", "c4", "c5", "c6", "c7", "c8",
      "c9", "c10", "c11", "c12", "c13", "c14", "c15", "c16",
      "c17", "c18", "c19", "c20", "c21", "c22", "c23", "c24",
      "c25", "c26", "c27", "c28", "c29", "c30", "c31", "c32",
      "c33", "c34", "c35", "c36", "c37", "c38", "c39", "c40",
      "c41", "c42", "c43", "c44", "c45", "c46", "c47", "c48">>
SSHKeyIds ==
    <<"k1", "k2", "k3", "k4", "k5", "k6", "k7", "k8",
      "k9", "k10", "k11", "k12", "k13", "k14", "k15", "k16",
      "k17", "k18", "k19", "k20", "k21", "k22", "k23", "k24">>
CodeSigningKeyIds ==
    <<"s1", "s2", "s3", "s4", "s5", "s6", "s7", "s8",
      "s9", "s10", "s11", "s12", "s13", "s14", "s15", "s16",
      "s17", "s18", "s19", "s20", "s21", "s22", "s23", "s24">>
AuditLogIds ==
    <<"l1", "l2", "l3", "l4", "l5", "l6", "l7", "l8",
      "l9", "l10", "l11", "l12", "l13", "l14", "l15", "l16",
      "l17", "l18", "l19", "l20", "l21", "l22", "l23", "l24">>

\* data/certificates.json: its i-th record
Certificate(i) ==
    [id |-> CertificateIds[i],
     name |-> Pick(<<"Web", "api", "Db">>, i),
     domain |-> Pick(<<"a.com", "b.com">>, i),
     issuer |-> Pick(<<"CA1", "CA2", "CA1">>, i),
     expiryDate |-> Pick(<<"2099-01-01", "2001-01-01", "2030-06-01", "2001-01-01">>, i)]

\* data/sshKeys.json: its i-th record
SSHKey(i) ==
    [id |-> SSHKeyIds[i],
     keyOwner |-> Pick(<<"ann", "Bob", "cy">>, i),
     fingerprint |-> Pick(<<"aa:01", "bb:02">>, i),
     trustLevel |-> Pick(<<"low", "high", "medium", "high">>, i)]

\* data/codeSigningKeys.json: its i-th record
CodeSigningKey(i) ==
    [id |-> CodeSigningKeyIds[i],
     keyAlias |-> Pick(<<"rel", "Dev", "qa">>, i),
     description |-> Pick(<<"Release", "Nightly">>, i),
     algorithm |-> Pick(<<"RSA", "ECDSA">>, i),
     protectionLevel |-> Pick(<<"HSM", "Soft", "HSM">>, i),
     lastUsed |-> Pick(<<"2024-01-01", "2024-03-01", "2024-02-01", "2024-03-01">>, i)]

\* data/auditLogs.json: its i-th record
AuditLog(i) ==
    [id |-> AuditLogIds[i],
     actor |-> Pick(<<"ann", "Bob">>, i),
     actionType |-> Pick(<<"ROTATE", "ISSUE", "LOGIN">>, i),
     targetResource |-> Pick(<<"k1", "c1">>, i)]

\* the first n records of a page's fixture file
FixtureRecords(page, n) ==
    CASE page = "CertificatesPage" -> [i \in 1..n |-> Certificate(i)]
      [] page = "SSHKeysPage" -> [i \in 1..n |-> SSHKey(i)]
      [] page = "CodeSigningPage" -> [i \in 1..n |-> CodeSigningKey(i)]
      [] page = "AuditLogsPage" -> [i \in 1..n |-> AuditLog(i)]

\* the fixture a page imports (certificatesData, sshKeysData, codeSigningData,
\* auditLogsData)
Fixture(page) == FixtureRecords(page, sizes[page])

\* the properties of a dataset's records, in the order JSON.stringify writes them
Fields(key) ==
    CASE key = "certificates" ->
            <<"id", "name", "domain", "issuer", "expiryDate">>
      [] key = "sshKeys" ->
            <<"id", "keyOwner", "fingerprint", "trustLevel">>
      [] key = "codeSigningKeys" ->
            <<"id", "keyAlias", "description", "algorithm", "protectionLevel", "lastUsed">>
      [] key = "auditLogs" ->
            <<"id", "actor", "actionType", "targetResource">>

\* the key a page passes to setCachedData
PutKey(page) ==
    CASE page = "CertificatesPage" -> "certificates"
      [] page = "SSHKeysPage" -> "sshKeys"
      [] page = "CodeSigningPage" -> "codeSigningKeys"
      [] page = "AuditLogsPage" -> "auditLogs"

\* the storage key a page's loadData reads with localStorage.getItem
LoadKey(page) ==
    CASE page = "CertificatesPage" -> "cache_certificates"
      [] page = "SSHKeysPage" -> "cache_sshKeys"
      [] page = "CodeSigningPage" -> "cache_codeSigningKeys"
      [] page = "AuditLogsPage" -> "cache_auditLogs"

\* `cache_${key}`
DerivedKey(key) ==
    CASE key = "certificates" -> "cache_certificates"
      [] key = "sshKeys" -> "cache_sshKeys"
      [] key = "codeSigningKeys" -> "cache_codeSigningKeys"
      [] key = "auditLogs" -> "cache_auditLogs"

\* the delay of the page's simulated API call, in milliseconds
Delay(page) ==
    CASE page = "CertificatesPage" -> 800
      [] page = "SSHKeysPage" -> 600
      [] page = "CodeSigningPage" -> 700
      [] page = "AuditLogsPage" -> 500

CacheKeys == {LoadKey(p) : p \in Pages}
StorageKeys == CacheKeys \cup {"darkMode"}

----------------------------------------------------------------------------
(* localStorage items *)

\* getItem returns null for NoItem, the text otherwise
NoItem == [present |-> FALSE, text |-> <<>>]
Item(text) == [present |-> TRUE, text |-> text]

\* JavaScript truthiness of what getItem returned: not null, not the empty string
Truthy(item) == item.present /\ item.text # <<>>

\* What an earlier session may have left under a page's cache key: nothing, an
\* entry written by setCachedData when the fixture still lacked its last
\* record, or text cut short (a write interrupted, a hand-edited entry).
StaleItem(page, data) == Item(StringifyEntry(data, 0, Fields(PutKey(page))))
TruncatedItem == Item(<<Punct("{"), StrTok("data"), Punct(":"), Punct("[")>>)
EarlierKinds == {"none", "stale", "truncated"}

\* an entry written when the file began with a record it no longer holds
FormerItem(page, data) ==
    Item(StringifyEntry(<<[data[1] EXCEPT !.id = "former"]>> \o data, 0,
                        Fields(PutKey(page))))

EarlierItem(page, kind, data) ==
    CASE kind = "none" -> NoItem
      [] kind = "stale" -> StaleItem(page, data)
      [] kind = "truncated" -> TruncatedItem
      [] kind = "former" -> FormerItem(page, data)

----------------------------------------------------------------------------
(* DashboardProvider *)

\* a provider that starts in light mode whatever was saved
InitialDarkModeIgnoringSaved(saved) == FALSE

\* the initial darkMode state: the saved flag parsed, false if there is none
InitialDarkMode(saved) == IF Truthy(saved) THEN JSONParse(saved.text).val ELSE FALSE

\* the darkMode effect: localStorage.setItem('darkMode', JSON.stringify(darkMode))
DarkModeEffect(flag, store) == [store EXCEPT !["darkMode"] = Item(StringifyBool(flag))]

\* a put that keeps an entry already stored under the key
SetCachedDataKeepsPrior(key, data, t, full) ==
    [cachedData |-> [k \in DOMAIN cachedData \cup {key} |->
                        IF k = key THEN data ELSE cachedData[k]],
     storage |-> IF full \/ storage[DerivedKey(key)].present THEN storage
                 ELSE [storage EXCEPT ![DerivedKey(key)] =
                          Item(StringifyEntry(data, t, Fields(key)))],
     threw |-> full]

\* setCachedData(key, data); t: what Date.now() returns; full: localStorage.setItem
\* throws QuotaExceededError.  The mirror is updated before the durable write
\* is attempted.
SetCachedData(key, data, t, full) ==
    [cachedData |-> [k \in DOMAIN cachedData \cup {key} |->
                        IF k = key THEN data ELSE cachedData[k]],
     storage |-> IF full THEN storage
                 ELSE [storage EXCEPT ![DerivedKey(key)] =
                          Item(StringifyEntry(data, t, Fields(key)))],
     threw |-> full]

----------------------------------------------------------------------------
(* A page view: its state, its loader, what it renders *)

\* useState initial values.  selectedCert and editingCert hold no record
\* (null) or one.  AuditLogsPage's dateRange is never set and stays
\* { from: undefined, to: undefined }.
InitialView(page) ==
    CASE page = "CertificatesPage" ->
            [data |-> <<>>, loading |-> TRUE, error |-> FALSE,
             filterDomain |-> "all", sortBy |-> "expiryDate", currentPage |-> 1,
             selectedCert |-> <<>>, editingCert |-> <<>>, searchTerm |-> ""]
      [] page = "SSHKeysPage" ->
            [data |-> <<>>, loading |-> TRUE, error |-> FALSE,
             searchTerm |-> "", sortBy |-> "trustLevel", expandedRows |-> {},
             debouncedSearch |-> ""]
      [] page = "CodeSigningPage" ->
            [data |-> <<>>, loading |-> TRUE, error |-> FALSE,
             searchTerm |-> "", viewMode |-> "table", filterProtection |-> "all",
             sortBy |-> "lastUsed"]
      [] page = "AuditLogsPage" ->
            [data |-> <<>>, loading |-> TRUE, error |-> FALSE,
             searchTerm |-> "", filterAction |-> "all",
             displayedCount |-> ITEMS_PER_LOAD, expandedRows |-> {}]

\* a catch block that sets the flags and throws again
CatchBlockRethrows(v) ==
    [view |-> [v EXCEPT !.error = TRUE, !.loading = FALSE], rejected |-> TRUE]

\* the catch block of loadData; rejected: the promise loadData returned rejects
CatchBlock(v) ==
    [view |-> [v EXCEPT !.error = TRUE, !.loading = FALSE], rejected |-> FALSE]

\* a loadData that reads the cache and publishes nothing before its await
LoadStartWithoutPreview(page, v, store) ==
    LET cached == store[LoadKey(page)]
        parsed == JSONParse(cached.text)
    IN  IF ~Truthy(cached)
            THEN [view |-> v, suspended |-> TRUE, rejected |-> FALSE, outcome |-> "miss"]
        ELSE IF ~parsed.ok
            THEN [view |-> CatchBlock(v).view, suspended |-> FALSE,
                  rejected |-> CatchBlock(v).rejected, outcome |-> "parseError"]
        ELSE [view |-> v, suspended |-> TRUE, rejected |-> FALSE, outcome |-> "hit"]

\* a loadData that takes an entry JSON.parse rejects for a miss
LoadStartParseErrorAsMiss(page, v, store) ==
    LET cached == store[LoadKey(page)]
        parsed == JSONParse(cached.text)
    IN  IF ~Truthy(cached) \/ ~parsed.ok
            THEN [view |-> v, suspended |-> TRUE, rejected |-> FALSE, outcome |-> "miss"]
        ELSE [view |-> [v EXCEPT !.data = parsed.val.data, !.loading = FALSE],
              suspended |-> TRUE, rejected |-> FALSE, outcome |-> "hit"]

\* loadData from its call to its await: the cache read.  suspended: the call
\* reached the await and its timer is running
LoadStart(page, v, store) ==
    LET cached == store[LoadKey(page)]
        parsed == JSONParse(cached.text)
    IN  IF ~Truthy(cached)
            THEN [view |-> v, suspended |-> TRUE, rejected |-> FALSE, outcome |-> "miss"]
        ELSE IF ~parsed.ok
            THEN [view |-> CatchBlock(v).view, suspended |-> FALSE,
                  rejected |-> CatchBlock(v).rejected, outcome |-> "parseError"]
        ELSE [view |-> [v EXCEPT !.data = parsed.val.data, !.loading = FALSE],
              suspended |-> TRUE, rejected |-> FALSE, outcome |-> "hit"]

\* a loadData that caches the fixture without publishing it
LoadResumeWithoutPublishing(page, live, v, t, full) ==
    LET put == SetCachedData(PutKey(page), Fixture(page), t, full)
        done == [v EXCEPT !.loading = FALSE, !.error = FALSE]
        caught == CatchBlock(v)
    IN  [view |-> IF ~live THEN v ELSE IF put.threw THEN caught.view ELSE done,
         cachedData |-> put.cachedData,
         storage |-> put.storage,
         rejected |-> put.threw /\ caught.rejected,
         outcome |-> IF put.threw THEN "quota" ELSE "ok"]

\* a loadData that publishes the fixture only over an empty list and caches
\* what the page then holds
LoadResumeKeepingPublished(page, live, v, t, full) ==
    LET v1 == IF live /\ v.data = <<>> THEN [v EXCEPT !.data = Fixture(page)] ELSE v
        put == SetCachedData(PutKey(page), IF live THEN v1.data ELSE Fixture(page), t, full)
        done == [v1 EXCEPT !.loading = FALSE, !.error = FALSE]
        caught == CatchBlock(v1)
    IN  [view |-> IF ~live THEN v ELSE IF put.threw THEN caught.view ELSE done,
         cachedData |-> put.cachedData,
         storage |-> put.storage,
         rejected |-> put.threw /\ caught.rejected,
         outcome |-> IF put.threw THEN "quota" ELSE "ok"]

\* a loadData that keeps the page's copy of every record the page already
\* holds and publishes the fixture's copy of the others
LoadResumeKeepingHeld(page, live, v, t, full) ==
    LET fresh == Fixture(page)
        held(i) == {j \in 1..Len(v.data) : v.data[j].id = fresh[i].id}
        merged == [i \in 1..Len(fresh) |->
                     IF held(i) # {} THEN v.data[CHOOSE j \in held(i) : TRUE]
                     ELSE fresh[i]]
        v1 == IF live THEN [v EXCEPT !.data = merged] ELSE v
        put == SetCachedData(PutKey(page), Fixture(page), t, full)
        done == [v1 EXCEPT !.loading = FALSE, !.error = FALSE]
        caught == CatchBlock(v1)
    IN  [view |-> IF ~live THEN v ELSE IF put.threw THEN caught.view ELSE done,
         cachedData |-> put.cachedData,
         storage |-> put.storage,
         rejected |-> put.threw /\ caught.rejected,
         outcome |-> IF put.threw THEN "quota" ELSE "ok"]

\* a loadData whose continuation does nothing once its view is unmounted
LoadResumeOfMountedOnly(page, live, v, t, full) ==
    LET v1 == [v EXCEPT !.data = Fixture(page)]
        put == SetCachedData(PutKey(page), Fixture(page), t, full)
        done == [v1 EXCEPT !.loading = FALSE, !.error = FALSE]
        caught == CatchBlock(v1)
    IN  IF ~live
            THEN [view |-> v, cachedData |-> cachedData, storage |-> storage,
                  rejected |-> FALSE, outcome |-> "ok"]
        ELSE [view |-> IF put.threw THEN caught.view ELSE done,
              cachedData |-> put.cachedData,
              storage |-> put.storage,
              rejected |-> put.threw /\ caught.rejected,
              outcome |-> IF put.threw THEN "quota" ELSE "ok"]

\* loadData after its await, for a call made by page; live: the view that made
\* the call is still mounted (React drops state updates of an unmounted view)
LoadResume(page, live, v, t, full) ==
    LET v1 == IF live THEN [v EXCEPT !.data = Fixture(page)] ELSE v
        put == SetCachedData(PutKey(page), Fixture(page), t, full)
        done == [v1 EXCEPT !.loading = FALSE, !.error = FALSE]
        caught == CatchBlock(v1)
    IN  [view |-> IF ~live THEN v ELSE IF put.threw THEN caught.view ELSE done,
         cachedData |-> put.cachedData,
         storage |-> put.storage,
         rejected |-> put.threw /\ caught.rejected,
         outcome |-> IF put.threw THEN "quota" ELSE "ok"]

\* what the page's render returns
Render(v) ==
    IF v.loading /\ Len(v.data) = 0 THEN "skeleton"
    ELSE IF v.error THEN "error"
    ELSE "content"

----------------------------------------------------------------------------
(* Strings *)

\* the characters of the strings the pages search and sort
Spelling ==
    ("" :> <<>>)
    @@ ("Web" :> <<"W", "e", "b">>) @@ ("api" :> <<"a", "p", "i">>)
    @@ ("Db" :> <<"D", "b">>) @@ ("New" :> <<"N", "e", "w">>)
    @@ ("a.com" :> <<"a", ".", "c", "o", "m">>)
    @@ ("b.com" :> <<"b", ".", "c", "o", "m">>)
    @@ ("A.COM" :> <<"A", ".", "C", "O", "M">>) @@ ("b" :> <<"b">>)
    @@ ("CA1" :> <<"C", "A", "1">>) @@ ("CA2" :> <<"C", "A", "2">>)
    @@ ("ann" :> <<"a", "n", "n">>) @@ ("Bob" :> <<"B", "o", "b">>)
    @@ ("cy" :> <<"c", "y">>)
    @@ ("aa:01" :> <<"a", "a", ":", "0", "1">>)
    @@ ("bb:02" :> <<"b", "b", ":", "0", "2">>)
    @@ ("rel" :> <<"r", "e", "l">>) @@ ("Dev" :> <<"D", "e", "v">>)
    @@ ("qa" :> <<"q", "a">>)
    @@ ("Release" :> <<"R", "e", "l", "e", "a", "s", "e">>)
    @@ ("Nightly" :> <<"N", "i", "g", "h", "t", "l", "y">>)
    @@ ("RSA" :> <<"R", "S", "A">>) @@ ("ECDSA" :> <<"E", "C", "D", "S", "A">>)
    @@ ("ROTATE" :> <<"R", "O", "T", "A", "T", "E">>)
    @@ ("ISSUE" :> <<"I", "S", "S", "U", "E">>)
    @@ ("LOGIN" :> <<"L", "O", "G", "I", "N">>)
    @@ ("k1" :> <<"k", "1">>) @@ ("c1" :> <<"c", "1">>)
    @@ ("2099-01-01" :> <<"2", "0", "9", "9", "-", "0", "1", "-", "0", "1">>)
    @@ ("2001-01-01" :> <<"2", "0", "0", "1", "-", "0", "1", "-", "0", "1">>)
    @@ ("2030-06-01" :> <<"2", "0", "3", "0", "-", "0", "6", "-", "0", "1">>)
    @@ ("2024-01-01" :> <<"2", "0", "2", "4", "-", "0", "1", "-", "0", "1">>)
    @@ ("2024-02-01" :> <<"2", "0", "2", "4", "-", "0", "2", "-", "0", "1">>)
    @@ ("2024-03-01" :> <<"2", "0", "2", "4", "-", "0", "3", "-", "0", "1">>)

Chars(s) == Spelling[s]

UpperCaseLetters ==
    <<"A", "B", "C", "D", "E", "F", "G", "H", "I", "J", "K", "L", "M",
      "N", "O", "P", "Q", "R", "S", "T", "U", "V", "W", "X", "Y", "Z">>
LowerCaseLetters ==
    <<"a", "b", "c", "d", "e", "f", "g", "h", "i", "j", "k", "l", "m",
      "n", "o", "p", "q", "r", "s", "t", "u", "v", "w", "x", "y", "z">>
DecimalDigits == <<"0", "1", "2", "3", "4", "5", "6", "7", "8", "9">>

\* the position of x in a table that holds it
IndexIn(table, x) == CHOOSE i \in 1..Len(table) : table[i] = x
Holds(table, x) == \E i \in 1..Len(table) : table[i] = x

\* String.prototype.toLowerCase, character by character
ToLowerCase(cs) ==
    [i \in 1..Len(cs) |->
        IF Holds(UpperCaseLetters, cs[i])
            THEN LowerCaseLetters[IndexIn(UpperCaseLetters, cs[i])]
            ELSE cs[i]]

\* String.prototype.includes
Includes(cs, part) ==
    \E i \in 0..(Len(cs) - Len(part)) : SubSeq(cs, i + 1, i + Len(part)) = part

\* toLowerCase of every string the pages meet, worked out once
LowerCaseSpelling == [s \in DOMAIN Spelling |-> ToLowerCase(Spelling[s])]

\* a match that tells upper case from lower case
MatchesCaseSensitive(field, term) == Includes(Chars(field), Chars(term))

\* field.toLowerCase().includes(term.toLowerCase())
Matches(field, term) == Includes(LowerCaseSpelling[field], LowerCaseSpelling[term])

\* the collation weight of a character: punctuation, then digits, then the
\* letters in alphabetical order whatever their case
CollationOrder == <<"-", ".", ":">> \o DecimalDigits \o LowerCaseLetters
Weights ==
    [c \in {CollationOrder[i] : i \in 1..Len(CollationOrder)}
            \cup {UpperCaseLetters[i] : i \in 1..Len(UpperCaseLetters)} |->
        IndexIn(CollationOrder, ToLowerCase(<<c>>)[1])]
Weight(c) == Weights[c]

RECURSIVE CompareWeights(_, _, _)
\* the order of two spellings by weight from position i on: -1, 0 or 1
CompareWeights(a, b, i) ==
    IF i > Len(a) /\ i > Len(b) THEN 0
    ELSE IF i > Len(a) THEN -1
    ELSE IF i > Len(b) THEN 1
    ELSE IF Weight(a[i]) < Weight(b[i]) THEN -1
    ELSE IF Weight(a[i]) > Weight(b[i]) THEN 1
    ELSE CompareWeights(a, b, i + 1)

RECURSIVE CompareCase(_, _, _)
\* spellings of equal weights: at the first difference lower case comes first
CompareCase(a, b, i) ==
    IF i > Len(a) THEN 0
    ELSE IF a[i] = b[i] THEN CompareCase(a, b, i + 1)
    ELSE IF Holds(LowerCaseLetters, a[i]) THEN -1
    ELSE 1

\* the order of two strings: by weight, then by case
Collate(x, y) ==
    LET byWeight == CompareWeights(Chars(x), Chars(y), 1)
    IN  IF byWeight # 0 THEN byWeight ELSE CompareCase(Chars(x), Chars(y), 1)

\* the order of every two strings the pages meet, worked out once
Collation == [x \in DOMAIN Spelling |-> [y \in DOMAIN Spelling |-> Collate(x, y)]]

\* String.prototype.localeCompare
LocaleCompare(x, y) == Collation[x][y]

\* the number two decimal digits denote, and four
TwoDigits(cs, i) ==
    10 * (IndexIn(DecimalDigits, cs[i]) - 1) + (IndexIn(DecimalDigits, cs[i + 1]) - 1)
FourDigits(cs, i) == 100 * TwoDigits(cs, i) + TwoDigits(cs, i + 2)

\* new Date("YYYY-MM-DD").getTime(), on a scale of days that keeps the order
\* of the instants
GetTime(date) ==
    LET cs == Chars(date)
    IN  (FourDigits(cs, 1) * 12 + (TwoDigits(cs, 6) - 1)) * 31 + (TwoDigits(cs, 9) - 1)

\* getTrustLevelValue
GetTrustLevelValue(level) ==
    CASE level = "high" -> 3
      [] level = "medium" -> 2
      [] level = "low" -> 1

\* CertificatesPage's sort: what the comparator reads of a record, and
\* compare(a, b) < 0 on what it read of a and of b
CertificatesSortKey(order, c) ==
    IF order = "expiryDate" THEN GetTime(c.expiryDate) ELSE c.name
\* a comparator that puts the latest expiry first
CertificatesBeforeLatestFirst(order, a, b) ==
    IF order = "expiryDate" THEN b - a < 0 ELSE LocaleCompare(a, b) < 0

CertificatesBefore(order, a, b) ==
    IF order = "expiryDate" THEN a - b < 0 ELSE LocaleCompare(a, b) < 0

\* SSHKeysPage's sort
SSHKeysSortKey(order, k) ==
    IF order = "trustLevel" THEN GetTrustLevelValue(k.trustLevel) ELSE k.keyOwner
SSHKeysBefore(order, a, b) ==
    IF order = "trustLevel" THEN b - a < 0 ELSE LocaleCompare(a, b) < 0

\* CodeSigningPage's sort
CodeSigningSortKey(order, k) ==
    IF order = "lastUsed" THEN GetTime(k.lastUsed) ELSE k.keyAlias
CodeSigningBefore(order, a, b) ==
    IF order = "lastUsed" THEN b - a < 0 ELSE LocaleCompare(a, b) < 0

SortKey(page, order, r) ==
    CASE page = "CertificatesPage" -> CertificatesSortKey(order, r)
      [] page = "SSHKeysPage" -> SSHKeysSortKey(order, r)
      [] page = "CodeSigningPage" -> CodeSigningSortKey(order, r)

Before(page, order, a, b) ==
    CASE page = "CertificatesPage" -> CertificatesBefore(order, a, b)
      [] page = "SSHKeysPage" -> SSHKeysBefore(order, a, b)
      [] page = "CodeSigningPage" -> CodeSigningBefore(order, a, b)

RECURSIVE InsertedBeforeEquals(_, _, _, _)
\* an insertion that puts x in front of the records that compare equal to it
InsertedBeforeEquals(sorted, x, page, order) ==
    IF sorted = <<>> THEN <<x>>
    ELSE IF ~Before(page, order, Head(sorted)[1], x[1]) THEN <<x>> \o sorted
    ELSE <<Head(sorted)>> \o InsertedBeforeEquals(Tail(sorted), x, page, order)

RECURSIVE Inserted(_, _, _, _)
\* a sorted list of <<key, record>> with x put in front of the first one x
\* comes before
Inserted(sorted, x, page, order) ==
    IF sorted = <<>> THEN <<x>>
    ELSE IF Before(page, order, x[1], Head(sorted)[1]) THEN <<x>> \o sorted
    ELSE <<Head(sorted)>> \o Inserted(Tail(sorted), x, page, order)

RECURSIVE Sorted(_, _, _)
\* a list of <<key, record>> in the comparator's order.  The sort is stable:
\* a record goes behind the earlier records that it does not come before.
Sorted(keyed, page, order) ==
    IF keyed = <<>> THEN <<>>
    ELSE Inserted(Sorted(SubSeq(keyed, 1, Len(keyed) - 1), page, order),
                  keyed[Len(keyed)], page, order)

\* Array.prototype.sort with the page's comparator
Sort(list, page, order) ==
    LET keyed == [i \in 1..Len(list) |-> <<SortKey(page, order, list[i]), list[i]>>]
        sorted == Sorted(keyed, page, order)
    IN  [i \in 1..Len(list) |-> sorted[i][2]]

\* Array.prototype.slice(start, end), 0 <= start <= end
Slice(list, start, end) ==
    SubSeq(list, start + 1, IF end < Len(list) THEN end ELSE Len(list))

Min(a, b) == IF a < b THEN a ELSE b
Max(a, b) == IF a > b THEN a ELSE b

\* the values of a property, without repetition
Unique(list, field) == {list[i][field] : i \in 1..Len(list)}

----------------------------------------------------------------------------
(* What the pages derive from their state *)

\* a pipeline whose domain stage has no "all"
CertificatesFilteredByDomainAlways(v) ==
    LET inDomain(c) == c.domain = v.filterDomain
        found(c) ==
            \/ v.searchTerm = ""
            \/ Matches(c.name, v.searchTerm)
            \/ Matches(c.domain, v.searchTerm)
            \/ Matches(c.issuer, v.searchTerm)
    IN  Sort(SelectSeq(SelectSeq(v.data, inDomain), found), "CertificatesPage", v.sortBy)

\* CertificatesPage: filteredAndSorted
CertificatesFilteredAndSorted(v) ==
    LET inDomain(c) == v.filterDomain = "all" \/ c.domain = v.filterDomain
        found(c) ==
            \/ v.searchTerm = ""
            \/ Matches(c.name, v.searchTerm)
            \/ Matches(c.domain, v.searchTerm)
            \/ Matches(c.issuer, v.searchTerm)
    IN  Sort(SelectSeq(SelectSeq(v.data, inDomain), found), "CertificatesPage", v.sortBy)

\* a window that counts the pages from 0
PaginatedDataFromPageZero(v) ==
    Slice(CertificatesFilteredAndSorted(v),
          v.currentPage * ITEMS_PER_PAGE,
          v.currentPage * ITEMS_PER_PAGE + ITEMS_PER_PAGE)

\* CertificatesPage: paginatedData
PaginatedData(v) ==
    Slice(CertificatesFilteredAndSorted(v),
          (v.currentPage - 1) * ITEMS_PER_PAGE,
          (v.currentPage - 1) * ITEMS_PER_PAGE + ITEMS_PER_PAGE)

\* CertificatesPage: totalPages (Math.ceil)
TotalPages(v) ==
    (Len(CertificatesFilteredAndSorted(v)) + ITEMS_PER_PAGE - 1) \div ITEMS_PER_PAGE

\* CertificatesPage: the numbered page buttons rendered
PageButtons(currentPage, totalPages) ==
    {page \in {IF currentPage <= 2 THEN i + 1 ELSE currentPage + i - 1 :
                    i \in 0..(Min(totalPages, 3) - 1)} :
        page <= totalPages}

\* CertificatesPage: domains
Domains(v) == Unique(v.data, "domain")

\* SSHKeysPage: filteredAndSorted
SSHKeysFilteredAndSorted(v) ==
    LET found(k) ==
            \/ v.debouncedSearch = ""
            \/ Matches(k.keyOwner, v.debouncedSearch)
            \/ Matches(k.fingerprint, v.debouncedSearch)
    IN  Sort(SelectSeq(v.data, found), "SSHKeysPage", v.sortBy)

\* CodeSigningPage: filteredAndSorted
CodeSigningFilteredAndSorted(v) ==
    LET protected(k) ==
            v.filterProtection = "all" \/ k.protectionLevel = v.filterProtection
        found(k) ==
            \/ v.searchTerm = ""
            \/ Matches(k.keyAlias, v.searchTerm)
            \/ Matches(k.description, v.searchTerm)
            \/ Matches(k.algorithm, v.searchTerm)
    IN  Sort(SelectSeq(SelectSeq(v.data, protected), found), "CodeSigningPage", v.sortBy)

\* AuditLogsPage: filteredLogs (dateRange.from and dateRange.to are undefined)
FilteredLogs(v) ==
    LET ofAction(l) == v.filterAction = "all" \/ l.actionType = v.filterAction
        found(l) ==
            \/ v.searchTerm = ""
            \/ Matches(l.actor, v.searchTerm)
            \/ Matches(l.targetResource, v.searchTerm)
            \/ Matches(l.actionType, v.searchTerm)
    IN  SelectSeq(SelectSeq(v.data, ofAction), found)

\* AuditLogsPage: displayedLogs
DisplayedLogs(v) == Slice(FilteredLogs(v), 0, v.displayedCount)

\* AuditLogsPage: actionTypes
ActionTypes(v) == Unique(v.data, "actionType")

\* what the filter, search and sort stages of a page produce
FilteredAndSorted(page, v) ==
    CASE page = "CertificatesPage" -> CertificatesFilteredAndSorted(v)
      [] page = "SSHKeysPage" -> SSHKeysFilteredAndSorted(v)
      [] page = "CodeSigningPage" -> CodeSigningFilteredAndSorted(v)
      [] page = "AuditLogsPage" -> FilteredLogs(v)

\* the value of the page's categorical filter (SSHKeysPage has none), the
\* record field it selects on, the term its search stage uses, the record
\* fields the search stage looks in, and the record field a sort mode reads
FilterValue(page, v) ==
    CASE page = "CertificatesPage" -> v.filterDomain
      [] page = "SSHKeysPage" -> "all"
      [] page = "CodeSigningPage" -> v.filterProtection
      [] page = "AuditLogsPage" -> v.filterAction
FilterField(page) ==
    CASE page = "CertificatesPage" -> "domain"
      [] page = "CodeSigningPage" -> "protectionLevel"
      [] page = "AuditLogsPage" -> "actionType"
SearchValue(page, v) ==
    IF page = "SSHKeysPage" THEN v.debouncedSearch ELSE v.searchTerm
SearchFields(page) ==
    CASE page = "CertificatesPage" -> {"name", "domain", "issuer"}
      [] page = "SSHKeysPage" -> {"keyOwner", "fingerprint"}
      [] page = "CodeSigningPage" -> {"keyAlias", "description", "algorithm"}
      [] page = "AuditLogsPage" -> {"actor", "targetResource", "actionType"}

\* a pipeline that sorts the page's list itself, not a copy of it
PublishedSortedInPlace(page, v) ==
    IF page = "AuditLogsPage" THEN v.data ELSE Sort(v.data, page, v.sortBy)

\* the page's list once its pipeline has run: the pipeline filters and
\* sorts a copy (let result = [...certificates])
Published(page, v) == v.data

\* the page's state once the page has rendered: every render runs the
\* pipeline
Rendered(page, v) == [v EXCEPT !.data = Published(page, v)]

\* the rows a page renders when it renders its content
Rows(page, v) ==
    CASE page = "CertificatesPage" -> PaginatedData(v)
      [] page = "SSHKeysPage" -> SSHKeysFilteredAndSorted(v)
      [] page = "CodeSigningPage" -> CodeSigningFilteredAndSorted(v)
      [] page = "AuditLogsPage" -> DisplayedLogs(v)

----------------------------------------------------------------------------
(* SSHKeysPage: the debounce effect *)

\* a timer set by the debounce effect; term: the searchTerm its callback
\* will pass to setDebouncedSearch; live: the view that set it is mounted
Timer(term) == [term |-> term, live |-> TRUE]

\* the terms of a set of timers
Terms(ts) == {t.term : t \in ts}

\* a cleanup that leaves the timer running
ClearTimeoutLeavesRunning(ts) == ts

\* the cleanup of the debounce effect: clearTimeout(timer)
ClearTimeout(ts) == {}

\* a teardown that runs no cleanup
UnmountedLeavesRunning(ts) == {[t EXCEPT !.live = FALSE] : t \in ts}

\* the timers once the mounted view is torn down: the cleanup runs
Unmounted(ts) == ClearTimeout({[t EXCEPT !.live = FALSE] : t \in ts})

\* The debounce effect runs, on mount and after every render in which
\* searchTerm has changed.  ts: the timers left by the cleanup.
DebounceEffect(page, searchTerm, ts) ==
    IF page = "SSHKeysPage" THEN ts \cup {Timer(searchTerm)} ELSE ts

----------------------------------------------------------------------------
(* Pending calls *)

\* a loadData call suspended at its await; origin: what made the call;
\* raced (observation): another call for the same key was pending with it
Load(page, origin) == [page |-> page, live |-> TRUE, origin |-> origin, raced |-> FALSE]

\* a teardown that cancels the calls the view made
TornDownCancelling(loads) == SubSeq(loads, 1, 0)

\* the pending calls once the mounted view is torn down
TornDown(loads) == [i \in 1..Len(loads) |-> [loads[i] EXCEPT !.live = FALSE]]

\* the pending calls with one more call appended; no pending call is cancelled
Started(loads, load) ==
    LET races == \E i \in 1..Len(loads) : loads[i].page = load.page
    IN  Append([i \in 1..Len(loads) |->
                    [loads[i] EXCEPT !.raced = @ \/ loads[i].page = load.page]],
               [load EXCEPT !.raced = races])

\* Timers fire in the order of their due times, and timers due together in
\* the order they were set: call i can resume before an earlier call only
\* if its delay is shorter.
CanResume(i) ==
    \A j \in 1..(i - 1) : Delay(pending[j].page) > Delay(pending[i].page)

Remove(s, i) == SubSeq(s, 1, i - 1) \o SubSeq(s, i + 1, Len(s))

----------------------------------------------------------------------------
(* Initial state: the application has rendered its first route *)

\* The session opens on one of `routes`, with the cache items an earlier
\* session left (the same kind, one of `kinds`, under the key of every page
\* the earlier session visited: all of them, or the opened page alone), a
\* darkMode flag saved as one of `flags`, and fixture files of the given
\* sizes.  The first page has mounted and its mount effect has called
\* loadData.  budget: how many times the user will act on the controls.
InitWith(routes, kinds, flags, files, visitedAll, budget) ==
    \E p \in routes, kind \in kinds, dm \in flags :
        LET stale == [q \in Pages |-> FixtureRecords(q, files[q] - 1)]
            store == [k \in StorageKeys |->
                        IF k = "darkMode" THEN Item(StringifyBool(dm))
                        ELSE LET q == CHOOSE q \in Pages : LoadKey(q) = k
                             IN IF visitedAll \/ q = p
                                    THEN EarlierItem(q, kind, stale[q])
                                    ELSE NoItem]
            start == LoadStart(p, InitialView(p), store)
        IN  /\ now = 0
            /\ storage = store
            /\ cachedData = [k \in {} |-> <<>>]
            /\ darkMode = dm
            /\ route = p
            /\ view = Rendered(p, start.view)
            /\ pending = IF start.suspended THEN <<Load(p, "mount")>> ELSE <<>>
            /\ uncaught = start.rejected
            /\ navigations = 0
            /\ sizes = files
            /\ gestures = budget
            /\ discarded = {}
            /\ timer = DebounceEffect(p, InitialView(p).searchTerm, {})
            /\ cleared = {}
            /\ last = [op |-> "mount", page |-> p, live |-> TRUE, origin |-> "mount",
                       raced |-> FALSE, outcome |-> start.outcome]

\* "/" redirects to /certificates (App.tsx); no darkMode flag saved earlier
Init ==
    InitWith({"CertificatesPage"}, EarlierKinds, {FALSE},
             [q \in Pages |-> FixtureSize], TRUE, MaxGestures)

----------------------------------------------------------------------------
(* Actions *)

\* The user follows a Sidebar link: the mounted page is torn down, page p
\* mounts with fresh state and its mount effect calls loadData.
Navigate(p) ==
    /\ p # route
    /\ navigations < MaxNavigations
    /\ navigations' = navigations + 1
    /\ Len(pending) < MaxPending
    /\ LET start == LoadStart(p, InitialView(p), storage)
       IN  /\ route' = p
           /\ view' = Rendered(p, start.view)
           /\ pending' = IF start.suspended
                            THEN Started(TornDown(pending), Load(p, "mount"))
                            ELSE TornDown(pending)
           /\ uncaught' = (uncaught \/ start.rejected)
           /\ last' = [op |-> "mount", page |-> p, live |-> TRUE, origin |-> "mount",
                       raced |-> FALSE, outcome |-> start.outcome]
    /\ timer' = DebounceEffect(p, InitialView(p).searchTerm, Unmounted(timer))
    /\ cleared' = cleared \cup Terms(timer)
    /\ UNCHANGED <<now, storage, cachedData, darkMode, sizes, gestures, discarded>>

\* a Try Again that goes straight to the acquisition
RetryWithoutCacheRead ==
    /\ Render(view) = "error"
    /\ Len(pending) < MaxPending
    /\ pending' = Started(pending, Load(route, "retry"))
    /\ last' = [op |-> "retry", page |-> route, live |-> TRUE, origin |-> "retry",
                raced |-> FALSE, outcome |-> "miss"]
    /\ UNCHANGED <<now, storage, cachedData, darkMode, route, view, uncaught,
                   navigations, sizes, gestures, discarded, timer, cleared>>

\* a Try Again that raises the loading flag before it calls loadData
RetryRaisingLoading ==
    /\ Render(view) = "error"
    /\ Len(pending) < MaxPending
    /\ LET start == LoadStart(route, [view EXCEPT !.loading = TRUE], storage)
       IN  /\ view' = Rendered(route, start.view)
           /\ pending' = IF start.suspended
                            THEN Started(pending, Load(route, "retry"))
                            ELSE pending
           /\ uncaught' = (uncaught \/ start.rejected)
           /\ last' = [op |-> "retry", page |-> route, live |-> TRUE, origin |-> "retry",
                       raced |-> FALSE, outcome |-> start.outcome]
    /\ UNCHANGED <<now, storage, cachedData, darkMode, route, navigations, sizes,
                   gestures, discarded, timer, cleared>>

\* The user presses Try Again on the ErrorDisplay: loadData is called again.
Retry ==
    /\ Render(view) = "error"
    /\ Len(pending) < MaxPending
    /\ LET start == LoadStart(route, view, storage)
       IN  /\ view' = Rendered(route, start.view)
           /\ pending' = IF start.suspended
                            THEN Started(pending, Load(route, "retry"))
                            ELSE pending
           /\ uncaught' = (uncaught \/ start.rejected)
           /\ last' = [op |-> "retry", page |-> route, live |-> TRUE, origin |-> "retry",
                       raced |-> FALSE, outcome |-> start.outcome]
    /\ UNCHANGED <<now, storage, cachedData, darkMode, route, navigations, sizes,
                   gestures, discarded, timer, cleared>>

\* what the user types into a search box, and into the name field of the editor
SearchTerms == {"", "A.COM", "b"}
EditNames == {"New"}

\* the ids of the records the page holds under a name typed into the editor
Renamed(page, v) ==
    IF page = "CertificatesPage"
        THEN {v.data[i].id : i \in {j \in 1..Len(v.data) : v.data[j].name \in EditNames}}
        ELSE {}

\* The timer of pending call i fires and loadData continues after its await.
\* (replaced: the records whose committed rename the step overwrote.)
Settle(i, full) ==
    /\ i \in 1..Len(pending)
    /\ CanResume(i)
    /\ LET load == pending[i]
           t == IF now < MaxTime THEN now + 1 ELSE now
           res == LoadResume(load.page, load.live, view, t, full)
       IN  /\ now' = t
           /\ view' = Rendered(route, res.view)
           /\ cachedData' = res.cachedData
           /\ storage' = res.storage
           /\ uncaught' = (uncaught \/ res.rejected)
           /\ last' = [op |-> "settle", page |-> load.page, live |-> load.live,
                       origin |-> load.origin, raced |-> load.raced,
                       outcome |-> res.outcome,
                       replaced |-> IF load.live THEN Renamed(route, view) ELSE {}]
    /\ pending' = Remove(pending, i)
    /\ UNCHANGED <<darkMode, route, navigations, sizes, gestures, discarded, timer, cleared>>

\* The user acts on a control: a handler runs and sets state of the mounted
\* view to v.  (The dialog and the sheet of CertificatesPage are not taken to
\* keep the user from the controls under them.)
SetState(op, v) ==
    /\ gestures > 0
    /\ gestures' = gestures - 1
    /\ view' = Rendered(route, v)
    /\ IF route = "SSHKeysPage" /\ v.searchTerm # view.searchTerm
          THEN /\ timer' = DebounceEffect(route, v.searchTerm, ClearTimeout(timer))
               /\ cleared' = cleared \cup Terms(timer)
          ELSE UNCHANGED <<timer, cleared>>
    /\ last' = [op |-> op, page |-> route, live |-> TRUE, origin |-> "user",
                raced |-> FALSE, outcome |-> "none"]
    /\ UNCHANGED <<now, storage, cachedData, darkMode, route, pending, uncaught,
                   navigations, sizes, discarded>>

\* the page is mounted and renders its content, controls included
Shows(page) == route = page /\ Render(view) = "content"


\* the rows the user picks from: the first and the last of those rendered
Picks == {"first", "last"}
Picked(rows, pick) == IF pick = "first" THEN rows[1] ELSE rows[Len(rows)]

\* the theme button of TopNav: toggleDarkMode, then the darkMode effect
\* writes the flag to localStorage
ToggleDarkMode ==
    /\ gestures > 0
    /\ gestures' = gestures - 1
    /\ darkMode' = ~darkMode
    /\ storage' = DarkModeEffect(darkMode', storage)
    /\ last' = [op |-> "toggleDarkMode", page |-> route, live |-> TRUE, origin |-> "user",
                raced |-> FALSE, outcome |-> "none"]
    /\ UNCHANGED <<now, cachedData, route, view, pending, uncaught, navigations, sizes,
                   discarded, timer, cleared>>

(* CertificatesPage *)

\* the search box
CertificatesSetSearchTerm(term) ==
    /\ Shows("CertificatesPage")
    /\ term # view.searchTerm
    /\ SetState("setSearchTerm", [view EXCEPT !.searchTerm = term])

\* a domain select that goes back to the first page
SetFilterDomainResettingPage(domain) ==
    /\ Shows("CertificatesPage")
    /\ domain \in {"all"} \cup Domains(view)
    /\ domain # view.filterDomain
    /\ SetState("setFilterDomain",
                [view EXCEPT !.filterDomain = domain, !.currentPage = 1])

\* the domain select: "All Domains" or one of domains
SetFilterDomain(domain) ==
    /\ Shows("CertificatesPage")
    /\ domain \in {"all"} \cup Domains(view)
    /\ domain # view.filterDomain
    /\ SetState("setFilterDomain", [view EXCEPT !.filterDomain = domain])

\* the sort select
CertificatesSetSortBy(order) ==
    /\ Shows("CertificatesPage")
    /\ order \in {"expiryDate", "name"}
    /\ order # view.sortBy
    /\ SetState("setSortBy", [view EXCEPT !.sortBy = order])

\* the Previous button
PreviousPage ==
    /\ Shows("CertificatesPage")
    /\ view.currentPage # 1
    /\ TotalPages(view) > 1
    /\ SetState("setCurrentPage", [view EXCEPT !.currentPage = Max(1, @ - 1)])

\* the Next button
NextPage ==
    /\ Shows("CertificatesPage")
    /\ LET totalPages == TotalPages(view)
       IN  /\ totalPages > 1
           /\ view.currentPage # totalPages
           /\ SetState("setCurrentPage",
                       [view EXCEPT !.currentPage = Min(totalPages, @ + 1)])

\* a numbered page button
GoToPage(page) ==
    /\ Shows("CertificatesPage")
    /\ LET totalPages == TotalPages(view)
       IN  /\ totalPages > 1
           /\ page \in PageButtons(view.currentPage, totalPages)
    /\ SetState("setCurrentPage", [view EXCEPT !.currentPage = page])

\* the eye button of a row
OpenDetails(pick) ==
    /\ Shows("CertificatesPage")
    /\ LET rows == PaginatedData(view)
       IN  /\ rows # <<>>
           /\ SetState("setSelectedCert",
                       [view EXCEPT !.selectedCert = <<Picked(rows, pick)>>])

\* the details dialog closes
CloseDetails ==
    /\ Shows("CertificatesPage")
    /\ view.selectedCert # <<>>
    /\ SetState("setSelectedCert", [view EXCEPT !.selectedCert = <<>>])

\* the edit button of a row
OpenEditor(pick) ==
    /\ Shows("CertificatesPage")
    /\ LET rows == PaginatedData(view)
       IN  /\ rows # <<>>
           /\ SetState("setEditingCert",
                       [view EXCEPT !.editingCert = <<Picked(rows, pick)>>])

\* the name field of the editor
EditName(name) ==
    /\ Shows("CertificatesPage")
    /\ view.editingCert # <<>>
    /\ name # view.editingCert[1].name
    /\ SetState("setEditingCert", [view EXCEPT !.editingCert[1].name = name])

\* a commit that adds the editor's copy when no certificate has its id
CommittedUpserting(certs, edited) ==
    IF \E i \in 1..Len(certs) : certs[i].id = edited.id
        THEN [i \in 1..Len(certs) |-> IF certs[i].id = edited.id THEN edited ELSE certs[i]]
        ELSE Append(certs, edited)

\* the certificates with the one that has the editor's id replaced by the
\* editor's copy
Committed(certs, edited) ==
    [i \in 1..Len(certs) |-> IF certs[i].id = edited.id THEN edited ELSE certs[i]]

\* a Save Changes that also puts the edited list into the cache
SaveEditWritingThrough ==
    /\ Shows("CertificatesPage")
    /\ view.editingCert # <<>>
    /\ gestures > 0
    /\ gestures' = gestures - 1
    /\ LET certs == Committed(view.data, view.editingCert[1])
           put == SetCachedData(PutKey("CertificatesPage"), certs, now, FALSE)
       IN  /\ view' = Rendered(route, [view EXCEPT !.data = certs, !.editingCert = <<>>])
           /\ cachedData' = put.cachedData
           /\ storage' = put.storage
    /\ last' = [op |-> "saveEdit", page |-> route, live |-> TRUE, origin |-> "user",
                raced |-> FALSE, outcome |-> "none"]
    /\ UNCHANGED <<now, darkMode, route, pending, uncaught, navigations, sizes, discarded, timer, cleared>>

\* the Save Changes (Local Only) button of the editor
SaveEdit ==
    /\ Shows("CertificatesPage")
    /\ view.editingCert # <<>>
    /\ SetState("saveEdit",
                [view EXCEPT !.data = Committed(view.data, view.editingCert[1]),
                             !.editingCert = <<>>])

\* the editor closes without saving
CloseEditor ==
    /\ Shows("CertificatesPage")
    /\ view.editingCert # <<>>
    /\ SetState("setEditingCert", [view EXCEPT !.editingCert = <<>>])

(* SSHKeysPage *)

\* the search box; the debounce effect then restarts its 300 ms timer
SSHKeysSetSearchTerm(term) ==
    /\ Shows("SSHKeysPage")
    /\ term # view.searchTerm
    /\ SetState("setSearchTerm", [view EXCEPT !.searchTerm = term])

\* A timer of the debounce effect fires: setDebouncedSearch(searchTerm) with
\* the searchTerm of the render that set the timer.  A set state of a view
\* that is no longer mounted changes nothing.
DebounceFire ==
    \E t \in timer :
        /\ timer' = timer \ {t}
        /\ view' = IF t.live
                       THEN Rendered(route, [view EXCEPT !.debouncedSearch = t.term])
                       ELSE view
        /\ last' = [op |-> "debounce", page |-> IF t.live THEN route ELSE "SSHKeysPage",
                    live |-> t.live, origin |-> "timer", raced |-> FALSE,
                    outcome |-> "none"]
        /\ UNCHANGED <<now, storage, cachedData, darkMode, route, pending, uncaught,
                       navigations, sizes, gestures, discarded, cleared>>

\* the sort select
SSHKeysSetSortBy(order) ==
    /\ Shows("SSHKeysPage")
    /\ order \in {"trustLevel", "owner"}
    /\ order # view.sortBy
    /\ SetState("setSortBy", [view EXCEPT !.sortBy = order])

\* a toggleRow that expands and never collapses
ToggleRowExpandingOnly(page, pick) ==
    /\ Shows(page)
    /\ LET rows == Rows(page, view)
       IN  /\ rows # <<>>
           /\ SetState("toggleRow",
                       [view EXCEPT !.expandedRows = @ \cup {Picked(rows, pick).id}])

\* toggleRow, of both pages that have expandable rows
ToggleRow(page, pick) ==
    /\ Shows(page)
    /\ LET rows == Rows(page, view)
       IN  /\ rows # <<>>
           /\ SetState("toggleRow",
                       [view EXCEPT !.expandedRows =
                           IF Picked(rows, pick).id \in @
                               THEN @ \ {Picked(rows, pick).id}
                               ELSE @ \cup {Picked(rows, pick).id}])

\* exportToCSV: a file is offered for download, no state is set
ExportToCSV ==
    /\ Shows("SSHKeysPage")
    /\ SetState("exportToCSV", view)

(* CodeSigningPage *)

\* the search box
CodeSigningSetSearchTerm(term) ==
    /\ Shows("CodeSigningPage")
    /\ term # view.searchTerm
    /\ SetState("setSearchTerm", [view EXCEPT !.searchTerm = term])

\* the sort select
CodeSigningSetSortBy(order) ==
    /\ Shows("CodeSigningPage")
    /\ order \in {"lastUsed", "alias"}
    /\ order # view.sortBy
    /\ SetState("setSortBy", [view EXCEPT !.sortBy = order])

\* the protection select
SetFilterProtection(level) ==
    /\ Shows("CodeSigningPage")
    /\ level \in {"all", "HSM", "Soft"}
    /\ level # view.filterProtection
    /\ SetState("setFilterProtection", [view EXCEPT !.filterProtection = level])

\* the table and grid buttons
SetViewMode(mode) ==
    /\ Shows("CodeSigningPage")
    /\ mode \in {"table", "grid"}
    /\ SetState("setViewMode", [view EXCEPT !.viewMode = mode])

(* AuditLogsPage *)

\* the search box
AuditLogsSetSearchTerm(term) ==
    /\ Shows("AuditLogsPage")
    /\ term # view.searchTerm
    /\ SetState("setSearchTerm", [view EXCEPT !.searchTerm = term])

\* the action select: "All Actions" or one of actionTypes
SetFilterAction(action) ==
    /\ Shows("AuditLogsPage")
    /\ action \in {"all"} \cup ActionTypes(view)
    /\ action # view.filterAction
    /\ SetState("setFilterAction", [view EXCEPT !.filterAction = action])

\* The sentinel below the list scrolls into view: the observer's callback
\* calls loadMore unless a load is showing its skeleton.
LoadMore ==
    /\ Shows("AuditLogsPage")
    /\ view.displayedCount < Len(FilteredLogs(view))
    /\ ~view.loading
    /\ SetState("loadMore",
                [view EXCEPT !.displayedCount =
                    Min(@ + ITEMS_PER_LOAD, Len(FilteredLogs(view)))])

\* The user reloads the page.  The document is built anew: the timers of the
\* old one are gone with it, DashboardProvider starts with an empty mirror,
\* reads the darkMode flag back and its effect saves it again, the page
\* mounts with fresh state and its mount effect calls loadData.  The cache
\* entries in localStorage stay.
Reload ==
    /\ navigations < MaxNavigations
    /\ navigations' = navigations + 1
    /\ LET start == LoadStart(route, InitialView(route), storage)
       IN  /\ darkMode' = InitialDarkMode(storage["darkMode"])
           /\ storage' = DarkModeEffect(darkMode', storage)
           /\ view' = Rendered(route, start.view)
           /\ pending' = IF start.suspended THEN <<Load(route, "mount")>> ELSE <<>>
           /\ uncaught' = (uncaught \/ start.rejected)
           /\ last' = [op |-> "mount", page |-> route, live |-> TRUE, origin |-> "mount",
                       raced |-> FALSE, outcome |-> start.outcome]
    /\ cachedData' = [k \in {} |-> <<>>]
    /\ discarded' = discarded \cup Renamed(route, view)
    /\ timer' = DebounceEffect(route, InitialView(route).searchTerm, {})
    /\ UNCHANGED <<now, route, sizes, gestures, cleared>>

Next ==
    \/ \E p \in Pages : Navigate(p)
    \/ Retry
    \/ \E i \in 1..MaxPending, full \in BOOLEAN : Settle(i, full)

Spec == Init /\ [][Next]_vars

\* The same session opened on any page, the earlier session having visited
\* that page alone: the other pages have no cache entry.
InitOnePage ==
    InitWith(Pages, EarlierKinds, {FALSE}, [q \in Pages |-> FixtureSize], FALSE,
             MaxGestures)

SpecOnePage == InitOnePage /\ [][Next]_vars

\* the fixture files, the paged and the incrementally revealed ones longer
\* than one window
WindowedSizes ==
    [q \in Pages |->
        CASE q = "CertificatesPage" -> ITEMS_PER_PAGE + ExtraRows
          [] q = "AuditLogsPage" -> ITEMS_PER_LOAD + ExtraRows
          [] OTHER -> FixtureSize]

\* A session on one page, opened by its URL, the user acting on its controls.
InitUI == InitWith(Pages, EarlierKinds, {FALSE}, WindowedSizes, FALSE, MaxGestures)

CertificatesControls ==
    \/ \E term \in SearchTerms : CertificatesSetSearchTerm(term)
    \/ \E domain \in {"all", "a.com", "b.com"} : SetFilterDomain(domain)
    \/ \E order \in {"expiryDate", "name"} : CertificatesSetSortBy(order)
    \/ PreviousPage
    \/ NextPage
    \/ \E page \in 1..3 : GoToPage(page)
    \/ \E pick \in Picks : OpenDetails(pick)
    \/ CloseDetails
    \/ \E pick \in Picks : OpenEditor(pick)
    \/ \E name \in EditNames : EditName(name)
    \/ SaveEdit
    \/ CloseEditor

SSHKeysControls ==
    \/ \E term \in SearchTerms : SSHKeysSetSearchTerm(term)
    \/ DebounceFire
    \/ \E order \in {"trustLevel", "owner"} : SSHKeysSetSortBy(order)
    \/ \E pick \in Picks : ToggleRow("SSHKeysPage", pick)
    \/ ExportToCSV

CodeSigningControls ==
    \/ \E term \in SearchTerms : CodeSigningSetSearchTerm(term)
    \/ \E order \in {"lastUsed", "alias"} : CodeSigningSetSortBy(order)
    \/ \E level \in {"all", "HSM", "Soft"} : SetFilterProtection(level)
    \/ \E mode \in {"table", "grid"} : SetViewMode(mode)

AuditLogsControls ==
    \/ \E term \in SearchTerms : AuditLogsSetSearchTerm(term)
    \/ \E action \in {"all", "ROTATE", "ISSUE", "LOGIN"} : SetFilterAction(action)
    \/ \E pick \in Picks : ToggleRow("AuditLogsPage", pick)
    \/ LoadMore

NextUI ==
    \/ Retry
    \/ \E i \in 1..MaxPending, full \in BOOLEAN : Settle(i, full)
    \/ ToggleDarkMode
    \/ CertificatesControls
    \/ SSHKeysControls
    \/ CodeSigningControls
    \/ AuditLogsControls

SpecUI == InitUI /\ [][NextUI]_vars

\* A session on the Certificates page in which the user edits names and
\* reloads the page.
InitReload ==
    InitWith({"CertificatesPage"}, EarlierKinds, {FALSE},
             [q \in Pages |-> FixtureSize], FALSE, MaxGestures)

NextReload ==
    \/ Retry
    \/ \E i \in 1..MaxPending, full \in BOOLEAN : Settle(i, full)
    \/ Reload
    \/ \E pick \in Picks : OpenEditor(pick)
    \/ \E name \in EditNames : EditName(name)
    \/ SaveEdit
    \/ CloseEditor

SpecReload == InitReload /\ [][NextReload]_vars

\* A session on the Certificates page with a fixture of more than three
\* pages, the user paging through it and narrowing it to one domain.
PagedSizes ==
    [q \in Pages |->
        IF q = "CertificatesPage" THEN FullPages * ITEMS_PER_PAGE + ExtraRows
        ELSE FixtureSize]

InitPaging ==
    InitWith({"CertificatesPage"}, {"none", "stale"}, {FALSE}, PagedSizes, FALSE,
             MaxGestures + 1)

NextPaging ==
    \/ \E i \in 1..MaxPending, full \in BOOLEAN : Settle(i, full)
    \/ \E domain \in {"all", "a.com", "b.com"} : SetFilterDomain(domain)
    \/ PreviousPage
    \/ NextPage
    \/ \E page \in 1..(FullPages + 1) : GoToPage(page)

SpecPaging == InitPaging /\ [][NextPaging]_vars

\* A session on the Certificates page in which the user edits names, the
\* cache holding what an earlier session left, a record that has since been
\* removed from the file included.
InitEdit ==
    InitWith({"CertificatesPage"}, {"none", "stale", "former"}, {FALSE},
             [q \in Pages |-> FixtureSize], FALSE, MaxGestures + 1)

NextEdit ==
    \/ Retry
    \/ \E i \in 1..MaxPending, full \in BOOLEAN : Settle(i, full)
    \/ \E pick \in Picks : OpenEditor(pick)
    \/ \E name \in EditNames : EditName(name)
    \/ SaveEdit
    \/ CloseEditor

SpecEdit == InitEdit /\ [][NextEdit]_vars

\* A session on one page in which the user toggles the theme, searches and
\* reloads the page.
InitTheme ==
    InitWith(Pages, {"none", "stale"}, {FALSE}, [q \in Pages |-> FixtureSize], FALSE,
             MaxGestures)

NextTheme ==
    \/ \E i \in 1..MaxPending, full \in BOOLEAN : Settle(i, full)
    \/ ToggleDarkMode
    \/ Reload
    \/ \E term \in SearchTerms : CertificatesSetSearchTerm(term)
    \/ \E term \in SearchTerms : SSHKeysSetSearchTerm(term)
    \/ \E term \in SearchTerms : CodeSigningSetSearchTerm(term)
    \/ \E term \in SearchTerms : AuditLogsSetSearchTerm(term)

SpecTheme == InitTheme /\ [][NextTheme]_vars

\* A session opened on the SSH Keys page, the user typing into the search
\* box and following Sidebar links.
InitDebounce ==
    InitWith({"SSHKeysPage"}, {"none", "stale"}, {FALSE}, [q \in Pages |-> FixtureSize],
             FALSE, MaxGestures)

NextDebounce ==
    \/ \E p \in Pages : Navigate(p)
    \/ \E i \in 1..MaxPending, full \in BOOLEAN : Settle(i, full)
    \/ \E term \in SearchTerms : SSHKeysSetSearchTerm(term)
    \/ DebounceFire

SpecDebounce == InitDebounce /\ [][NextDebounce]_vars

\* The same session with the browser's timers at work: a timer that is
\* running and is not cleared fires.
SpecDebounceLive == InitDebounce /\ [][NextDebounce]_vars /\ WF_vars(DebounceFire)

----------------------------------------------------------------------------
(* Reading the state *)

\* the durable entry under a page's cache key, read back and parsed
CacheEntry(page) == JSONParse(storage[LoadKey(page)].text)

\* the item holds text that JSON.parse rejects
Malformed(item) == Truthy(item) /\ ~JSONParse(item.text).ok

\* the item holds a cache entry
Parseable(item) == Truthy(item) /\ JSONParse(item.text).ok

\* the handler that ran last called loadData (on mount or on Try Again)
LoadStarted == last.op \in {"mount", "retry"}

\* the call made by the handler that ran last is suspended at its await
AcquisitionReached ==
    /\ Len(pending) > 0
    /\ pending[Len(pending)].page = route
    /\ pending[Len(pending)].live
    /\ pending[Len(pending)].origin = last.op

\* the handler that ran last was a resumption of loadData
Settled == last.op = "settle"

FailureOutcomes == {"parseError", "quota"}

\* what the page's render shows
ShowsData(v) == Render(v) = "content"
ShowsErrorAffordance(v) == Render(v) = "error"

----------------------------------------------------------------------------
(* Claims *)

\* C1: when the item under the page's cache key holds text that fails to
\* parse, loadData behaves as on a cache miss: a mounting view's error flag
\* stays clear, the item is still there, and the call goes on to its
\* acquisition.
C1_MalformedEntryIsSilentMiss ==
    (LoadStarted /\ Malformed(storage[LoadKey(route)])) =>
        /\ (last.op = "mount" => ~view.error)
        /\ storage[LoadKey(route)].present
        /\ AcquisitionReached

\* C2: every call of loadData, on mount or on retry, whatever the cache read
\* found, reaches the asynchronous acquisition.
C2_AcquisitionNeverSkipped == LoadStarted => AcquisitionReached

\* C3: right after setCachedData(key, data) has written, reading the durable
\* entry back gives data unchanged and a timestamp not earlier than the time
\* of the call, whatever was stored under the key before.
C3_CacheRoundTrip ==
    (Settled /\ last.outcome = "ok") =>
        /\ CacheEntry(last.page).ok
        /\ CacheEntry(last.page).val.data = Fixture(last.page)
        /\ CacheEntry(last.page).val.timestamp >= now

\* C3 witness: a write has replaced the entry an earlier session left (the
\* other keys still hold theirs, stamped 0) by the fixture, stamped now.
C3_Witness ==
    /\ Settled /\ last.outcome = "ok" /\ now > 0
    /\ CacheEntry(last.page).val.timestamp = now
    /\ CacheEntry(last.page).val.data = Fixture(last.page)
    /\ \E q \in Pages \ {last.page} :
        /\ Parseable(storage[LoadKey(q)])
        /\ CacheEntry(q).val.timestamp = 0
        /\ CacheEntry(q).val.data # Fixture(q)

\* C4: when loadData starts and a parseable entry exists under the page's
\* key, the cached data is published and the loading flag is cleared while
\* the acquisition is still in flight.
C4_CacheHitPreview ==
    (LoadStarted /\ Parseable(storage[LoadKey(route)])) =>
        /\ view.data = CacheEntry(route).val.data
        /\ ~view.loading
        /\ AcquisitionReached

\* C4 witness: a view has mounted on a stale entry and shows it while its
\* acquisition is pending.
C4_Witness ==
    /\ last.op = "mount" /\ Parseable(storage[LoadKey(route)])
    /\ Len(view.data) > 0 /\ view.data # Fixture(route)
    /\ ShowsData(view)
    /\ AcquisitionReached

\* C5: when loadData completes successfully, the durable entry and the mirror
\* hold the fixture, and the view that made the call shows the fixture with
\* the loading flag and the error flag both false.
C5_SuccessPostcondition ==
    (Settled /\ last.outcome = "ok") =>
        /\ CacheEntry(last.page).ok
        /\ CacheEntry(last.page).val.data = Fixture(last.page)
        /\ PutKey(last.page) \in DOMAIN cachedData
        /\ cachedData[PutKey(last.page)] = Fixture(last.page)
        /\ last.live =>
            /\ last.page = route
            /\ view.data = Fixture(route)
            /\ ~view.loading
            /\ ~view.error

\* C5 witness: the first page's mount previewed a stale entry (the other keys
\* still hold theirs) and its acquisition has now replaced the preview.
C5_Witness ==
    /\ Settled /\ last.outcome = "ok" /\ last.live /\ last.origin = "mount"
    /\ navigations = 0
    /\ view.data = Fixture(route) /\ ~view.loading /\ ~view.error
    /\ \E q \in Pages \ {route} : Parseable(storage[LoadKey(q)])

\* C6: when loadData fails (the cache text does not parse, or the durable
\* write throws), nothing escapes the catch block, the view that made the
\* call has its error flag set and its loading flag cleared, and its data is
\* what had been published when the failure happened: the data it had when
\* the cache read failed, the fixture when the write failed.  A view that did
\* not make the call is left alone.
C6_FailurePostcondition ==
    /\ [](~uncaught)
    /\ []((last.outcome \in FailureOutcomes /\ last.live) =>
            (view.error /\ ~view.loading))
    /\ [][last'.outcome \in FailureOutcomes =>
            /\ (last'.op = "mount" => view'.data = InitialView(last'.page).data)
            /\ (last'.op = "retry" => view'.data = view.data)
            /\ (last'.op = "settle" /\ last'.live => view'.data = Fixture(last'.page))
            /\ (last'.op = "settle" /\ ~last'.live => view' = view)]_vars

\* C6 witness: the durable write of a mounted view's call has thrown; the view
\* holds the fixture it had just published, with the error flag set.
C6_Witness ==
    /\ Settled /\ last.outcome = "quota" /\ last.live
    /\ view.error /\ ~view.loading /\ view.data = Fixture(route)
    /\ ~uncaught

\* C7: whenever the error flag is set while the published data is non-empty,
\* the view shows the data together with the error affordance.
C7_PreviewAndErrorCoexist ==
    (view.error /\ Len(view.data) > 0) =>
        (ShowsData(view) /\ ShowsErrorAffordance(view))

\* C8: calls of loadData are made only by a mount or by Try Again, which is
\* offered only on the ErrorDisplay; a resumption never starts another call.
\* Try Again runs loadData from its cache read (an entry found is published
\* again and the loading flag cleared, then the acquisition starts), and a
\* retry that completes clears the error flag.
C8_RetryUserInitiated ==
    /\ [][/\ Len(pending') > Len(pending) =>
                /\ last'.op \in {"mount", "retry"}
                /\ Len(pending') = Len(pending) + 1
          /\ last'.op = "settle" => Len(pending') = Len(pending) - 1
          /\ last'.op = "retry" =>
                /\ ShowsErrorAffordance(view)
                /\ route' = route
                /\ Parseable(storage[LoadKey(route)]) =>
                      /\ view'.data = CacheEntry(route).val.data
                      /\ ~view'.loading
                /\ ~Malformed(storage[LoadKey(route)]) =>
                      /\ Len(pending') = Len(pending) + 1
                      /\ pending'[Len(pending')].page = route
                      /\ pending'[Len(pending')].origin = "retry"]_vars
    /\ []((Settled /\ last.origin = "retry" /\ last.live /\ last.outcome = "ok") =>
            ~view.error)

\* C8 witness: a call made by Try Again has completed and the page shows its
\* content again.
C8_Witness ==
    /\ Settled /\ last.origin = "retry" /\ last.live /\ last.outcome = "ok"
    /\ ~view.error /\ ShowsData(view) /\ view.data = Fixture(route)

\* the call that has just resumed raced another for its key and resumed last
LaterOfRace ==
    /\ Settled /\ last.raced
    /\ \A i \in 1..Len(pending) : pending[i].page # last.page

\* C9 as stated: of calls for one key in flight together, the one that resumes
\* later determines the published data and the durable entry.
C9_LastSettledWins ==
    LaterOfRace =>
        /\ CacheEntry(last.page).ok
        /\ CacheEntry(last.page).val.data = Fixture(last.page)
        /\ CacheEntry(last.page).val.timestamp = now
        /\ last.live => view.data = Fixture(route)

\* C9 amended: no pending call is ever cancelled (calls leave only by
\* resuming); of calls for one key in flight together, the one that resumes
\* later determines the published data, the flags and the mirror, and it
\* determines the durable entry when its durable write succeeds; when that
\* write throws, the durable entry stays as the earlier call left it.
C9_LastSettledWinsAmended ==
    /\ [][/\ last'.op # "settle" =>
                /\ Len(pending') >= Len(pending)
                /\ \A i \in 1..Len(pending) :
                      /\ pending'[i].page = pending[i].page
                      /\ pending'[i].origin = pending[i].origin
          /\ (last'.op = "settle" /\ last'.outcome = "quota") => storage' = storage]_vars
    /\ [](LaterOfRace =>
            /\ cachedData[PutKey(last.page)] = Fixture(last.page)
            /\ last.live =>
                /\ view.data = Fixture(route)
                /\ ~view.loading
                /\ view.error = (last.outcome = "quota")
            /\ last.outcome = "ok" =>
                /\ CacheEntry(last.page).ok
                /\ CacheEntry(last.page).val.data = Fixture(last.page)
                /\ CacheEntry(last.page).val.timestamp = now)

\* C9 witness: two calls of one view were in flight together, and the later
\* one has completed and stamped the entry.
C9_Witness ==
    /\ LaterOfRace /\ last.live /\ last.origin = "retry" /\ last.outcome = "ok"
    /\ view.data = Fixture(route) /\ ~view.error
    /\ CacheEntry(last.page).val.timestamp = now
    /\ now > 1


\* the durable cache entries: the items under the cache keys
CacheEntries(store) == [k \in CacheKeys |-> store[k]]

\* C10: the durable cache entries and the mirror change only in a resumption
\* of loadData after its acquisition, which calls setCachedData once, for the
\* page's own key and with the fixture: the mirror takes the fixture under
\* that key, the durable entry under that key is rewritten or (the write
\* refused) left as it was, and nothing else in the cache changes.  No
\* search, filter, sort, page change, reveal, row toggle, edit, save, export,
\* theme toggle, debounce or Try Again changes an entry or the mirror.
C10_SingleWriter ==
    [][ /\ (cachedData' # cachedData \/ CacheEntries(storage') # CacheEntries(storage))
            => last'.op = "settle"
        /\ last'.op = "settle" =>
            LET key == PutKey(last'.page)
                data == Fixture(last'.page)
            IN  /\ cachedData' = [k \in DOMAIN cachedData \cup {key} |->
                                    IF k = key THEN data ELSE cachedData[k]]
                /\ \A k \in StorageKeys \ {DerivedKey(key)} : storage'[k] = storage[k]
                /\ storage'[DerivedKey(key)] \in
                        {storage[DerivedKey(key)],
                         Item(StringifyEntry(data, now', Fields(key)))}
      ]_vars

\* C10 witness: the user has saved an edit after the load had cached the
\* fixture: the page shows the edited list while the mirror and the durable
\* entry still hold the fixture.
C10_Witness ==
    /\ last.op = "saveEdit"
    /\ view.data # Fixture(route)
    /\ \E i \in 1..Len(view.data) : view.data[i].name \in EditNames
    /\ PutKey(route) \in DOMAIN cachedData
    /\ cachedData[PutKey(route)] = Fixture(route)
    /\ CacheEntry(route).ok
    /\ CacheEntry(route).val.data = Fixture(route)


\* the names of the records of a list
Names(list) == {list[i].name : i \in 1..Len(list)}

\* C11: on the Certificates page, once a load has run to its successful end
\* the page and the cache entry hold the fixture, whatever renames the user
\* committed before it (in the view the load replaces, or in a document a
\* reload has thrown away): no record carries a name typed into the editor.
C11_EditLostOnReload ==
    (Settled /\ last.live /\ last.outcome = "ok") =>
        /\ view.data = Fixture(route)
        /\ Names(view.data) \cap EditNames = {}
        /\ CacheEntry(route).ok
        /\ CacheEntry(route).val.data = Fixture(route)
        /\ Names(CacheEntry(route).val.data) \cap EditNames = {}

\* C11 witness: the user committed a rename, reloaded the page, and the load
\* the reloaded page started on mount has run to its successful end.
C11_Witness ==
    /\ discarded # {}
    /\ Settled /\ last.live /\ last.outcome = "ok" /\ last.origin = "mount"
    /\ view.data = Fixture(route)
    /\ CacheEntry(route).val.data = Fixture(route)



\* C12: on every page the filter, search and sort stages produce at most as
\* many records as the page holds, and exactly as many when the filter is
\* "all" and the term the search stage uses is empty.
C12_FilteredCountBound ==
    LET count == Len(FilteredAndSorted(route, view))
    IN  /\ count <= Len(view.data)
        /\ (FilterValue(route, view) = "all" /\ SearchValue(route, view) = "")
                => count = Len(view.data)

\* C12 witness: a filter other than "all" lets some of the records through,
\* and not all of them.
C12_Witness ==
    LET count == Len(FilteredAndSorted(route, view))
    IN  /\ FilterValue(route, view) # "all"
        /\ 0 < count
        /\ count < Len(view.data)

\* two characters are the same letter, whatever their case
SameLetter(a, b) ==
    \/ a = b
    \/ \E i \in 1..Len(UpperCaseLetters) :
            {a, b} = {UpperCaseLetters[i], LowerCaseLetters[i]}

\* the term occurs in the field as a substring, case ignored
OccursIn(term, field) ==
    LET t == Chars(term)
        f == Chars(field)
    IN  \E i \in 0..(Len(f) - Len(t)) : \A k \in 1..Len(t) : SameLetter(f[i + k], t[k])

\* the records of the page that pass the categorical filter
PassFilter(page, v) ==
    {r \in {v.data[i] : i \in 1..Len(v.data)} :
        FilterValue(page, v) = "all" \/ r[FilterField(page)] = FilterValue(page, v)}

\* the records of a list
Records(list) == {list[i] : i \in 1..Len(list)}

\* C13: of the records that pass the categorical filter, the search stage
\* retains exactly those in which the term, case ignored, is a substring of
\* one of the page's search fields, each of them once; an empty term retains
\* them all.
C13_SearchSemantics ==
    LET out == FilteredAndSorted(route, view)
        term == SearchValue(route, view)
        retained == {r \in PassFilter(route, view) :
                        \E field \in SearchFields(route) : OccursIn(term, r[field])}
    IN  /\ Records(out) = retained
        /\ Len(out) = Cardinality(retained)
        /\ term = "" => retained = PassFilter(route, view)

\* C13 witness: the term "A.COM" has retained the certificates of a.com and
\* only them.
C13_Witness ==
    LET out == FilteredAndSorted(route, view)
    IN  /\ route = "CertificatesPage"
        /\ view.searchTerm = "A.COM"
        /\ view.filterDomain = "all"
        /\ Len(out) > 0
        /\ \A i \in 1..Len(out) : out[i].domain = "a.com"
        /\ \E i \in 1..Len(view.data) : view.data[i].domain = "b.com"

\* a date as <<year, month, day>>, and d is a later day than e
YearMonthDay(date) ==
    LET cs == Chars(date)
    IN  <<FourDigits(cs, 1), TwoDigits(cs, 6), TwoDigits(cs, 9)>>
LaterThan(d, e) ==
    LET a == YearMonthDay(d)
        b == YearMonthDay(e)
    IN  \/ a[1] > b[1]
        \/ a[1] = b[1] /\ a[2] > b[2]
        \/ a[1] = b[1] /\ a[2] = b[2] /\ a[3] > b[3]

TrustOrder == <<"high", "medium", "low">>

\* C14: what the sort stage produces is in the order of the active mode:
\* certificates by expiryDate have no record behind one that expires later
\* (soonest first); code-signing keys by lastUsed have no record behind one
\* used earlier (most recent first); SSH keys by trustLevel go high, medium,
\* low; the name modes follow localeCompare.
C14_SortOrder ==
    LET out == FilteredAndSorted(route, view)
        ordered(InOrder(_, _)) ==
            \A i \in 1..Len(out) : \A j \in (i + 1)..Len(out) : InOrder(out[i], out[j])
        byExpiry(a, b) == ~LaterThan(a.expiryDate, b.expiryDate)
        byLastUsed(a, b) == ~LaterThan(b.lastUsed, a.lastUsed)
        byTrust(a, b) ==
            IndexIn(TrustOrder, a.trustLevel) <= IndexIn(TrustOrder, b.trustLevel)
        byName(a, b) == LocaleCompare(a.name, b.name) <= 0
        byOwner(a, b) == LocaleCompare(a.keyOwner, b.keyOwner) <= 0
        byAlias(a, b) == LocaleCompare(a.keyAlias, b.keyAlias) <= 0
    IN  CASE route = "CertificatesPage" ->
                IF view.sortBy = "expiryDate" THEN ordered(byExpiry) ELSE ordered(byName)
          [] route = "SSHKeysPage" ->
                IF view.sortBy = "trustLevel" THEN ordered(byTrust) ELSE ordered(byOwner)
          [] route = "CodeSigningPage" ->
                IF view.sortBy = "lastUsed" THEN ordered(byLastUsed) ELSE ordered(byAlias)
          [] route = "AuditLogsPage" -> TRUE

\* C14 witness: the certificates are shown by expiryDate, c2 (2001) in front
\* of c1 (2099), which the fixture has the other way round.
C14_Witness ==
    LET out == FilteredAndSorted(route, view)
    IN  /\ route = "CertificatesPage"
        /\ view.sortBy = "expiryDate"
        /\ Len(view.data) >= 2
        /\ view.data[1].id = "c1" /\ view.data[2].id = "c2"
        /\ out[1].id = "c2"
        /\ \E j \in 2..Len(out) : out[j].id = "c1"

\* where the record with r's id stands in a list that holds it
PositionIn(list, r) == CHOOSE i \in 1..Len(list) : list[i].id = r.id

\* the comparator of the page's active sort mode returns 0 for a and b
EqualKeys(page, order, a, b) ==
    /\ ~Before(page, order, SortKey(page, order, a), SortKey(page, order, b))
    /\ ~Before(page, order, SortKey(page, order, b), SortKey(page, order, a))

C16_PagedWindow ==
    route = "CertificatesPage" =>
        LET all == CertificatesFilteredAndSorted(view)
            rows == PaginatedData(view)
            p == view.currentPage
            first == (p - 1) * ITEMS_PER_PAGE + 1
        IN  (1 <= p /\ first <= Len(all)) =>
                /\ Len(rows) = Min(ITEMS_PER_PAGE, Len(all) - (p - 1) * ITEMS_PER_PAGE)
                /\ \A i \in 1..Len(rows) : rows[i] = all[first + i - 1]
                /\ first + Len(rows) - 1 = Min(p * ITEMS_PER_PAGE, Len(all))

\* C16 witness: the user has gone to page 2, the last and shorter page: it
\* shows the records from the eleventh on.
C16_Witness ==
    LET all == CertificatesFilteredAndSorted(view)
        rows == PaginatedData(view)
    IN  /\ route = "CertificatesPage"
        /\ last.op = "setCurrentPage"
        /\ view.currentPage = 2
        /\ Len(all) > ITEMS_PER_PAGE
        /\ Len(rows) = Len(all) - ITEMS_PER_PAGE
        /\ rows[1] = all[ITEMS_PER_PAGE + 1]


\* C17: on the Certificates page a Previous, Next or numbered-page request
\* yields a current page within 1..totalPages.
C17_PageRequestsClamped ==
    [][(route = "CertificatesPage" /\ last'.op = "setCurrentPage")
            => (1 <= view'.currentPage /\ view'.currentPage <= TotalPages(view'))]_vars


\* C18: on the Certificates page a change of the domain filter, of the search
\* term or of the sort mode leaves the current page number as it was.
C18_PageNotReset ==
    [][(route = "CertificatesPage"
            /\ last'.op \in {"setFilterDomain", "setSearchTerm", "setSortBy"})
        => view'.currentPage = view.currentPage]_vars

\* C18 witness: the user was on page 2 when a filter or search change shrank
\* the result to a single page: the page displayed is empty although records
\* match, all of them on page 1.
C18_Witness ==
    /\ Shows("CertificatesPage")
    /\ last.op \in {"setFilterDomain", "setSearchTerm"}
    /\ view.currentPage = 2
    /\ PaginatedData(view) = <<>>
    /\ CertificatesFilteredAndSorted(view) # <<>>
    /\ TotalPages(view) = 1


\* C19: on the Audit Logs page, whenever the list is displayed the revealed
\* count does not exceed the number of logs the filter and the search retain.
C19_RevealedCountBound ==
    Shows("AuditLogsPage") => view.displayedCount <= Len(FilteredLogs(view))

\* a loadData call of the mounted page is suspended at its await
LoadInFlight ==
    \E i \in 1..Len(pending) : pending[i].live /\ pending[i].page = route

\* C20: on the Audit Logs page a reveal trigger that fires while a load of
\* the page is in flight leaves the revealed count as it was.
C20_RevealIgnoredInFlight ==
    [][(route = "AuditLogsPage" /\ LoadInFlight /\ last'.op = "loadMore")
        => view'.displayedCount = view.displayedCount]_vars


\* C21: on the SSH Keys page a keystroke changes searchTerm at once and
\* leaves debouncedSearch alone, clears the running timer and starts one for
\* the new term, so that a single timer runs, that of the latest keystroke;
\* debouncedSearch changes only when that timer fires, and then to the
\* searchTerm of the moment; and what the search stage produces does not
\* depend on searchTerm.
C21_DebouncedSearchSafety ==
    [][route = "SSHKeysPage" =>
        /\ (last'.op = "setSearchTerm" =>
                /\ view'.searchTerm # view.searchTerm
                /\ view'.debouncedSearch = view.debouncedSearch
                /\ timer' = {Timer(view'.searchTerm)})
        /\ (view'.debouncedSearch # view.debouncedSearch =>
                /\ last'.op = "debounce"
                /\ view'.debouncedSearch = view.searchTerm
                /\ view'.searchTerm = view.searchTerm)
        /\ \A term \in SearchTerms :
                SSHKeysFilteredAndSorted([view' EXCEPT !.searchTerm = term])
                    = SSHKeysFilteredAndSorted(view')]_vars

\* C21 witness: the user typed "A.COM" and replaced it by "b" before the
\* timer fired; the timer of "b" has fired and "b" is the term applied.
C21_Witness ==
    /\ route = "SSHKeysPage"
    /\ last.op = "debounce"
    /\ "A.COM" \in cleared
    /\ view.searchTerm = "b"
    /\ view.debouncedSearch = "b"
    /\ timer = {}


\* C22: on the SSH Keys page, when debouncedSearch differs from searchTerm
\* then, unless the user types again or the view is torn down, debouncedSearch
\* comes to equal searchTerm; and a teardown clears the running timer: every
\* timer that runs was set by the mounted view, so that no timer step ever
\* acts for a view that is gone.
C22_DebounceLivenessAndTeardown ==
    /\ \A term \in SearchTerms :
            (route = "SSHKeysPage" /\ view.searchTerm = term /\ view.debouncedSearch # term)
                ~> (\/ route # "SSHKeysPage"
                    \/ view.searchTerm # term
                    \/ view.debouncedSearch = term)
    /\ [](\A t \in timer : t.live /\ route = "SSHKeysPage")
    /\ [][last'.op = "debounce" => (last'.live /\ route' = "SSHKeysPage")]_vars

\* C22 witness: the user typed "b" and followed a Sidebar link before the
\* timer fired: the term was never applied and no timer is running.
C22_Witness ==
    /\ route # "SSHKeysPage"
    /\ last.op = "mount"
    /\ gestures = MaxGestures - 1
    /\ "b" \in cleared
    /\ timer = {}


\* the ids of the records of a list
Ids(list) == {list[i].id : i \in 1..Len(list)}

\* C23: on the SSH Keys and the Audit Logs page, toggling a row takes its id
\* out of the expanded set if it is there and puts it in if it is not, and
\* changes nothing else of the page's state, nor the cache; and no other
\* step of the mounted page (search, filter, sort, reveal, timer, load)
\* changes the expanded set.
C23_RowExpansionIndependent ==
    [][(route \in {"SSHKeysPage", "AuditLogsPage"}) =>
        (IF last'.op = "toggleRow"
            THEN /\ \E id \in Ids(Rows(route, view)) :
                        view'.expandedRows =
                            IF id \in view.expandedRows
                                THEN view.expandedRows \ {id}
                                ELSE view.expandedRows \cup {id}
                 /\ [view' EXCEPT !.expandedRows = view.expandedRows] = view
                 /\ cachedData' = cachedData
                 /\ storage' = storage
            ELSE (last'.op # "mount" => view'.expandedRows = view.expandedRows))]_vars

\* C23 witness: a row was expanded and a search or a filter has then taken
\* it out of the list: its id is still in the expanded set.
C23_Witness ==
    /\ route \in {"SSHKeysPage", "AuditLogsPage"}
    /\ Render(view) = "content"
    /\ \E id \in view.expandedRows :
            /\ id \in Ids(view.data)
            /\ id \notin Ids(FilteredAndSorted(route, view))


\* C24: the provider starts with the saved darkMode flag, false when none
\* is saved; in every state the darkMode item of localStorage is the flag
\* stringified; a toggle flips the flag and changes neither the page's
\* state, nor the mirror, nor a cache entry, nor the pending calls; and the
\* session a reload starts has the flag the last one ended with.
C24_DarkModePersistence ==
    /\ InitialDarkMode(NoItem) = FALSE
    /\ \A flag \in BOOLEAN : InitialDarkMode(Item(StringifyBool(flag))) = flag
    /\ [](storage["darkMode"] = Item(StringifyBool(darkMode)))
    /\ [][/\ last'.op = "toggleDarkMode" =>
                /\ darkMode' = ~darkMode
                /\ view' = view
                /\ cachedData' = cachedData
                /\ pending' = pending
                /\ \A k \in CacheKeys : storage'[k] = storage[k]
          /\ last'.op # "toggleDarkMode" => darkMode' = darkMode]_vars

\* C24 witness: the user switched to dark mode and reloaded the page: the new
\* session is in dark mode.
C24_Witness ==
    /\ last.op = "mount"
    /\ navigations > 0
    /\ darkMode
    /\ storage["darkMode"] = Item(StringifyBool(TRUE))


\* the record passes the page's categorical filter and its search
Retained(page, v, r) ==
    /\ FilterValue(page, v) = "all" \/ r[FilterField(page)] = FilterValue(page, v)
    /\ \E field \in SearchFields(page) : OccursIn(SearchValue(page, v), r[field])

\* C25: on every page the derived list holds exactly the records of the
\* page's list that pass both the categorical filter and the search, each
\* once, and is the sort of them taken in the list's order (on the Audit
\* Logs page, which does not sort, they stay in that order); and a step that
\* changes the search term, the filter or the sort mode, after which the
\* pipeline runs again, leaves the page's list as it was.
C25_PipelineDerivation ==
    /\ [](LET out == FilteredAndSorted(route, view)
               keep(r) == Retained(route, view, r)
               kept == SelectSeq(view.data, keep)
           IN  /\ Records(out) = {r \in Records(view.data) : keep(r)}
               /\ Len(out) = Cardinality(Records(out))
               /\ out = IF route = "AuditLogsPage" THEN kept
                                                    ELSE Sort(kept, route, view.sortBy))
    /\ [][last'.op \in {"setSearchTerm", "setSortBy", "setFilterDomain",
                        "setFilterProtection", "setFilterAction", "debounce"}
            => view'.data = view.data]_vars

\* C25 witness: the certificates are shown by name, in another order than
\* the page's list has them in, and the list is still the fixture.
C25_Witness ==
    /\ route = "CertificatesPage"
    /\ last.op = "setSortBy"
    /\ view.sortBy = "name"
    /\ view.data = Fixture(route)
    /\ Len(CertificatesFilteredAndSorted(view)) = Len(view.data)
    /\ CertificatesFilteredAndSorted(view) # view.data


\* C26: on the Certificates page a commit of the editor leaves the list as
\* long as it was, puts the editor's record in the place of every record
\* that has its id and leaves every other record as and where it was (so
\* the list is unchanged when no record has the id), and closes the editor.
C26_EditCommitById ==
    [][last'.op = "saveEdit" =>
        LET edited == view.editingCert[1]
        IN  /\ Len(view'.data) = Len(view.data)
            /\ \A i \in 1..Len(view.data) :
                    view'.data[i] = IF view.data[i].id = edited.id THEN edited
                                                                  ELSE view.data[i]
            /\ edited.id \notin Ids(view.data) => view'.data = view.data
            /\ view'.editingCert = <<>>]_vars

\* C26 witness: the user has renamed a certificate of the loaded fixture
\* and saved: that record carries the new name, the others are the
\* fixture's, and the editor is closed.
C26_Witness ==
    /\ route = "CertificatesPage"
    /\ last.op = "saveEdit"
    /\ view.editingCert = <<>>
    /\ Len(view.data) = Len(Fixture(route))
    /\ \E i \in 1..Len(view.data) :
            /\ view.data[i] = [Fixture(route)[i] EXCEPT !.name = "New"]
            /\ view.data[i] # Fixture(route)[i]
            /\ \A j \in 1..Len(view.data) : j # i => view.data[j] = Fixture(route)[j]


\* C27: every page mounts with its loading flag raised; while a view stays
\* mounted, a flag that is down stays down, whatever happens (a Try Again
\* included), so that the skeleton is not rendered again; and in no state
\* are the error flag and the loading flag both raised.
C27_LoadingNeverReRaised ==
    /\ \A p \in Pages : InitialView(p).loading
    /\ [](~(view.error /\ view.loading))
    /\ [][(last'.op # "mount" /\ ~view.loading) =>
                /\ ~view'.loading
                /\ Render(view') # "skeleton"]_vars

\* C27 witness: a load has failed and the user has pressed Try Again: the
\* new call is in flight, the loading flag is down and the page still
\* renders the ErrorDisplay, not the skeleton.
C27_Witness ==
    /\ last.op = "retry"
    /\ last.outcome \in {"hit", "miss"}
    /\ \E i \in 1..Len(pending) : pending[i].live /\ pending[i].origin = "retry"
    /\ ~view.loading
    /\ Render(view) = "error"


\* C28: while the item under a page's cache key is text that JSON.parse
\* rejects, no loadData call of that page is suspended at its await, the
\* page, when mounted, has its error flag set and an empty list, and the
\* mirror has nothing under its key; no step changes the item; and every
\* mount and every Try Again of the page ends in the catch block.
C28_UnparseableEntryPermanent ==
    /\ [](\A p \in Pages : Malformed(storage[LoadKey(p)]) =>
            /\ \A i \in 1..Len(pending) : pending[i].page # p
            /\ PutKey(p) \notin DOMAIN cachedData
            /\ route = p => (view.error /\ view.data = <<>> /\ Render(view) = "error"))
    /\ [][\A p \in Pages : Malformed(storage[LoadKey(p)]) =>
            /\ storage'[LoadKey(p)] = storage[LoadKey(p)]
            /\ (last'.page = p /\ last'.op \in {"mount", "retry"})
                    => last'.outcome = "parseError"]_vars

\* C28 witness: the page's entry is unparseable; the user has been to
\* another page, whose load has cached its fixture, has come back and has
\* pressed Try Again: the page still shows the error.
C28_Witness ==
    /\ Malformed(storage[LoadKey(route)])
    /\ last.op = "retry"
    /\ last.outcome = "parseError"
    /\ navigations >= 2
    /\ view.error
    /\ view.data = <<>>
    /\ \E q \in Pages \ {route} : Parseable(storage[LoadKey(q)])


\* C29: on the Certificates page, when the page holds a record renamed in the
\* editor and a suspended loadData call of the mounted view then runs to its
\* successful end, that step alone (no reload, navigation, Try Again or
\* other user action is part of it) leaves the page holding the fixture, and
\* no record carries the name typed.
C29_EditOverwrittenInFlight ==
    [][(/\ route = "CertificatesPage"
        /\ Renamed(route, view) # {}
        /\ last'.op = "settle" /\ last'.live /\ last'.outcome = "ok")
        => (/\ gestures' = gestures
            /\ navigations' = navigations
            /\ view'.data = Fixture(route)
            /\ Renamed(route, view') = {}
            /\ Names(view'.data) \cap EditNames = {})]_vars

\* C29 witness: the user committed a rename on the cached preview while the
\* mount's call was suspended, and the call has now run to its successful
\* end and overwritten it.
C29_Witness ==
    /\ Settled /\ last.live /\ last.outcome = "ok" /\ last.origin = "mount"
    /\ last.replaced # {}
    /\ navigations = 0
    /\ view.data = Fixture(route)
    /\ Names(view.data) \cap EditNames = {}


\* C30 as stated: a navigation leaves every suspended loadData call
\* suspended; when a call whose view has been unmounted resumes, the mounted
\* page's state is unchanged, and the mirror and the localStorage item under
\* the call's key hold the caller's fixture.
C30_AcquisitionOutlivesView ==
    [][ /\ (route' # route) =>
            /\ Len(pending') >= Len(pending)
            /\ \A i \in 1..Len(pending) :
                    /\ pending'[i].page = pending[i].page
                    /\ pending'[i].origin = pending[i].origin
                    /\ ~pending'[i].live
        /\ (last'.op = "settle" /\ ~last'.live) =>
            LET key == PutKey(last'.page)
                data == Fixture(last'.page)
            IN  /\ view' = view
                /\ route' = route
                /\ key \in DOMAIN cachedData'
                /\ cachedData'[key] = data
                /\ storage'[DerivedKey(key)] = Item(StringifyEntry(data, now', Fields(key)))
      ]_vars

\* C30, amended: as above, except that the localStorage item under the
\* call's key holds the caller's fixture when setItem returns and is left as
\* it was when setItem throws; no other item and no other key of the mirror
\* changes.
C30_AcquisitionOutlivesViewAmended ==
    [][ /\ (route' # route) =>
            /\ Len(pending') >= Len(pending)
            /\ \A i \in 1..Len(pending) :
                    /\ pending'[i].page = pending[i].page
                    /\ pending'[i].origin = pending[i].origin
                    /\ ~pending'[i].live
        /\ (last'.op = "settle" /\ ~last'.live) =>
            LET key == PutKey(last'.page)
                data == Fixture(last'.page)
            IN  /\ view' = view
                /\ route' = route
                /\ key \in DOMAIN cachedData'
                /\ cachedData'[key] = data
                /\ \A k \in DOMAIN cachedData \ {key} : cachedData'[k] = cachedData[k]
                /\ \A k \in StorageKeys \ {DerivedKey(key)} : storage'[k] = storage[k]
                /\ last'.outcome \in {"ok", "quota"}
                /\ (last'.outcome = "ok") =>
                        storage'[DerivedKey(key)] = Item(StringifyEntry(data, now', Fields(key)))
                /\ (last'.outcome = "quota") =>
                        storage'[DerivedKey(key)] = storage[DerivedKey(key)]
      ]_vars

\* C30 witness: the user left a page while its call was suspended; the call
\* has resumed and cached that page's fixture in the mirror and in
\* localStorage, while the page now mounted is still waiting for its own.
C30_Witness ==
    /\ Settled /\ ~last.live /\ last.outcome = "ok"
    /\ last.page # route
    /\ PutKey(last.page) \in DOMAIN cachedData
    /\ cachedData[PutKey(last.page)] = Fixture(last.page)
    /\ CacheEntry(last.page).ok
    /\ CacheEntry(last.page).val.data = Fixture(last.page)
    /\ PutKey(route) \notin DOMAIN cachedData
    /\ \E i \in 1..Len(pending) : pending[i].page = route /\ pending[i].live


====
